---------------------------- MODULE Spec2Model ----------------------------
(***************************************************************************)
(* A model of vobject's icalendar.py: the escaped-text-list and duration   *)
(* micro-parsers, the duration formatter, component validation and the     *)
(* native/text transforms of the value behaviors.                          *)
(*                                                                         *)
(* Python strings are sequences of one-character strings.  An exception    *)
(* raised by a function is the "exc" field of the record it returns        *)
(* ("none" when it returns normally).                                      *)
(***************************************************************************)
EXTENDS Integers, Sequences, FiniteSets, TLC

VARIABLES
    tvLine,     \* MultiText content line: [value, encoded]
    tvOrig,     \* the list the line held before its first encode
    tvOps,      \* the encode / decode calls made on tvLine, in order
    tvIn,       \* argument s of a direct stringToTextValues call
    tvStrict,   \* argument strict of that call
    tvOut,      \* what that call returned: [called, exc, results]
    durSrc,     \* where the duration text comes from: "delta", "segments", "text"
    durDelta,   \* a timedelta, in whole seconds
    durSegs,    \* the well-formed durations a multi-duration text was joined from
    durText,    \* the text handed to stringToDurations
    durOut,     \* what stringToDurations returned: [called, exc, durations]
    vObj,       \* a component: [name, contents], contents keyed by lower-cased name
    vRaise,     \* argument raiseException of the validate call
    vResult,    \* what validate did: "none" (not called), "True", "False", "ValidateError"
    node,       \* a content line or component: [behavior, cls, value, params, isNative]
    nOrig,      \* the node as it was constructed
    tzidMap,    \* the TZID registry: tzid -> time source
    nLog,       \* the transform calls made on node: [op, exc], in order
    rcComp,     \* a recurring component: [dtstart, exrule, rrule, rdate, exdate]
    rcOut,      \* what getrruleset / setrruleset did: [op, exc, set]
    tzComp,     \* a VTIMEZONE component: [tzid, daylight, standard]
    tzArgs,     \* the last settzinfo call: [tzinfo, start, end]
    calObj,     \* a VCALENDAR component: its name and children
    calDone,    \* generateImplicitParameters was called on it
    regProcs,   \* two transforms at once: [pc, obj, writes, tzinfo] each
    regWrites,  \* the transforms that wrote to the registry, in order
    calCalls,   \* the components generateImplicitParameters was called on, as paths
    calExc      \* what the last of these calls raised

textVars == <<tvLine, tvOrig, tvOps, tvIn, tvStrict, tvOut>>

durVars == <<durSrc, durDelta, durSegs, durText, durOut>>

valVars == <<vObj, vRaise, vResult>>

nodeVars == <<node, nOrig, tzidMap, nLog>>

recurVars == <<rcComp, rcOut>>

tzVars == <<tzComp, tzArgs>>

calVars == <<calObj, calDone>>

regVars == <<regProcs, regWrites>>

implVars == <<calCalls, calExc>>

vars == <<textVars, durVars, valVars, nodeVars, recurVars, tzVars, calVars, regVars, implVars>>

-----------------------------------------------------------------------------
(* Bounds of the model *)

MaxStrLen == 1      \* longest string in a MultiText list
MaxListLen == 2     \* longest MultiText list
MaxTextLen == 3     \* longest raw text handed to stringToTextValues
MaxOps == 2         \* encode / decode calls made on one line
MaxDays == 2        \* most whole days in a sampled timedelta
MaxDurSegs == 2     \* most durations joined into one multi-duration text
MaxDurLen == 3      \* longest arbitrary text handed to stringToDurations
MaxChildren == 3    \* most nodes added below one component
MaxCalls == 3       \* transform calls made on one node
MaxRules == 2       \* most RRULE lines of a recurring component
MaxYears == 6       \* longest window of years settzinfo is run over
MaxCalChildren == 2 \* most children a calendar is given by the program
MaxImplied == 3     \* calls of generateImplicitParameters made on a calendar

-----------------------------------------------------------------------------
(* Characters *)

BSLASH == "\\"
NEWLINE == "\n"
COMMA == ","
SEMI == ";"
EOF == "eof"

TextAlphabet == {"a", COMMA, SEMI, BSLASH, NEWLINE}

RawAlphabet == {"a", "n", COMMA, BSLASH}

StringsUpTo(alphabet, n) == UNION {[1..k -> alphabet] : k \in 0..n}

RECURSIVE Join(_, _)
Join(strs, sep) ==
    IF Len(strs) = 0 THEN <<>>
    ELSE IF Len(strs) = 1 THEN strs[1]
    ELSE strs[1] \o sep \o Join(Tail(strs), sep)

-----------------------------------------------------------------------------
(* Escaped text *)

escapableCharList == {BSLASH, SEMI, COMMA, "N", "n"}

escapableChar(c) == c \in escapableCharList

\* One character of backslashEscape: backslash, semicolon and comma get a
\* backslash in front, a newline becomes backslash-n.
EscapeChar(c) ==
    IF c = BSLASH THEN <<BSLASH, BSLASH>>
    ELSE IF c = SEMI THEN <<BSLASH, SEMI>>
    ELSE IF c = COMMA THEN <<BSLASH, COMMA>>
    ELSE IF c = NEWLINE THEN <<BSLASH, "n">>
    ELSE <<c>>

RECURSIVE backslashEscape(_)
backslashEscape(s) ==
    IF Len(s) = 0 THEN <<>>
    ELSE EscapeChar(Head(s)) \o backslashEscape(Tail(s))

\* What the character "char" appends to "current": the end-of-input marker
\* is the three-character Python string "eof".
Appended(char) == IF char = EOF THEN <<"e", "o", "f">> ELSE <<char>>

\* The loop of stringToTextValues from its i-th iteration on; the iterator
\* yields s[i] while i <= Len(s) and the marker "eof" afterwards.
RECURSIVE TextLoop(_, _, _, _, _, _)
TextLoop(s, strict, i, state, current, results) ==
    LET char == IF i <= Len(s) THEN s[i] ELSE EOF IN
    CASE state = "read normal" ->
            IF char = BSLASH
              THEN TextLoop(s, strict, i + 1, "read escaped char", current, results)
            ELSE IF char = COMMA
              THEN TextLoop(s, strict, i + 1, "read normal", <<>>,
                            Append(results, current))
            ELSE IF char = EOF
              THEN TextLoop(s, strict, i + 1, "end", current, results)
            ELSE TextLoop(s, strict, i + 1, "read normal",
                          current \o <<char>>, results)
      [] state = "read escaped char" ->
            IF escapableChar(char)
              THEN IF char \in {"n", "N"}
                     THEN TextLoop(s, strict, i + 1, "read normal",
                                   current \o <<NEWLINE>>, results)
                     ELSE TextLoop(s, strict, i + 1, "read normal",
                                   current \o <<char>>, results)
              ELSE TextLoop(s, strict, i + 1, "read normal",
                            current \o Appended(char), results)
      [] state = "end" ->
            IF current # <<>> \/ Len(results) = 0
              THEN [exc |-> "none", results |-> Append(results, current)]
              ELSE [exc |-> "none", results |-> results]
      [] state = "error" ->
            [exc |-> "none", results |-> results]
      [] OTHER ->
            IF strict
              THEN [exc |-> "ParseError", results |-> results]
              ELSE TextLoop(s, strict, i + 1, "error", current, results)

stringToTextValues(s, strict) == TextLoop(s, strict, 1, "read normal", <<>>, <<>>)

RECURSIVE EscapeAll(_)
EscapeAll(vals) ==
    IF Len(vals) = 0 THEN <<>>
    ELSE <<backslashEscape(Head(vals))>> \o EscapeAll(Tail(vals))

MultiTextBehavior_decode(line) ==
    IF line.encoded
      THEN [value |-> stringToTextValues(line.value, FALSE).results,
            encoded |-> FALSE]
      ELSE line

MultiTextBehavior_encode(line) ==
    IF ~line.encoded
      THEN [value |-> Join(EscapeAll(line.value), <<COMMA>>), encoded |-> TRUE]
      ELSE line

-----------------------------------------------------------------------------
(* The text specification: a MultiText line that is encoded and decoded,   *)
(* and direct calls of the parser.                                         *)

TextStrings == StringsUpTo(TextAlphabet, MaxStrLen)

TextLists == UNION {[1..k -> TextStrings] : k \in 0..MaxListLen}

NoCall == [called |-> FALSE, exc |-> "none", results |-> <<>>]

NoDurCall == [called |-> FALSE, exc |-> "none", durations |-> <<>>]

NoComponent == [name |-> "", contents |-> <<>>]

NoNode ==
    [behavior |-> "", cls |-> "", value |-> [t |-> "None"], params |-> <<>>,
     isNative |-> FALSE]

\* utc = dateutil.tz.tzutc(); registerTzid("UTC", utc).  A VTIMEZONE for EST
\* has been read before.
InitialTzidMap ==
    [k \in {"UTC", "EST"} |->
        IF k = "UTC" THEN [t |-> "tzinfo", tzid |-> "UTC", offset |-> 0]
        ELSE [t |-> "tzinfo", tzid |-> "EST", offset |-> -5]]

\* Either a decoded MultiText line holding a list, or a raw text for the parser.
TextInit ==
    /\ tvOps = <<>>
    /\ tvOut = NoCall
    /\ \/ /\ tvOrig \in TextLists
          /\ tvIn = <<>>
          /\ tvStrict = FALSE
       \/ /\ tvOrig = <<>>
          /\ tvIn \in StringsUpTo(RawAlphabet, MaxTextLen)
          /\ tvStrict \in BOOLEAN
    /\ tvLine = [value |-> tvOrig, encoded |-> FALSE]
    /\ durSrc = "idle"
    /\ durDelta = 0
    /\ durSegs = <<>>
    /\ durText = <<>>
    /\ durOut = NoDurCall
    /\ vObj = NoComponent
    /\ vRaise = FALSE
    /\ vResult = "none"
    /\ node = NoNode
    /\ nOrig = NoNode
    /\ tzidMap = InitialTzidMap
    /\ nLog = <<>>
    /\ rcComp = <<>>
    /\ rcOut = <<>>
    /\ tzComp = <<>>
    /\ tzArgs = <<>>
    /\ calObj = <<>>
    /\ calDone = FALSE
    /\ regProcs = <<>>
    /\ regWrites = <<>>
    /\ calCalls = <<>>
    /\ calExc = "none"

Encode ==
    /\ Len(tvOps) < MaxOps
    /\ tvLine' = MultiTextBehavior_encode(tvLine)
    /\ tvOps' = Append(tvOps, "encode")
    /\ UNCHANGED <<tvOrig, tvIn, tvStrict, tvOut>>
    /\ UNCHANGED <<durVars, valVars, nodeVars>>
    /\ UNCHANGED recurVars
    /\ UNCHANGED tzVars
    /\ UNCHANGED calVars
    /\ UNCHANGED regVars
    /\ UNCHANGED implVars

Decode ==
    /\ Len(tvOps) < MaxOps
    /\ tvLine' = MultiTextBehavior_decode(tvLine)
    /\ tvOps' = Append(tvOps, "decode")
    /\ UNCHANGED <<tvOrig, tvIn, tvStrict, tvOut>>
    /\ UNCHANGED <<durVars, valVars, nodeVars>>
    /\ UNCHANGED recurVars
    /\ UNCHANGED tzVars
    /\ UNCHANGED calVars
    /\ UNCHANGED regVars
    /\ UNCHANGED implVars

ParseText ==
    /\ ~tvOut.called
    /\ LET r == stringToTextValues(tvIn, tvStrict) IN
         tvOut' = [called |-> TRUE, exc |-> r.exc, results |-> r.results]
    /\ UNCHANGED <<tvLine, tvOrig, tvOps, tvIn, tvStrict>>
    /\ UNCHANGED <<durVars, valVars, nodeVars>>
    /\ UNCHANGED recurVars
    /\ UNCHANGED tzVars
    /\ UNCHANGED calVars
    /\ UNCHANGED regVars
    /\ UNCHANGED implVars


-----------------------------------------------------------------------------
(* Python values the duration parser juggles: the int 0, None, or a string *)

PyInt(n) == [t |-> "int", n |-> n, s |-> <<>>]
PyNone == [t |-> "None", n |-> 0, s |-> <<>>]
PyStr(s) == [t |-> "str", n |-> 0, s |-> s]

\* Python truthiness: 0, None and "" are false.
Truthy(x) ==
    CASE x.t = "int" -> x.n # 0
      [] x.t = "None" -> FALSE
      [] OTHER -> x.s # <<>>

Digits == {"0", "1", "2", "3", "4", "5", "6", "7", "8", "9"}

DigitChars == <<"0", "1", "2", "3", "4", "5", "6", "7", "8", "9">>

DigitVal(c) == (CHOOSE k \in 1..10 : DigitChars[k] = c) - 1

RECURSIVE DigitsToNat(_, _)
DigitsToNat(s, acc) ==
    IF Len(s) = 0 THEN acc
    ELSE DigitsToNat(Tail(s), 10 * acc + DigitVal(Head(s)))

\* int(s) for a string: an optional sign, then one or more digits; anything
\* else is a ValueError (the texts modelled hold no white space).
IntOfText(s) ==
    LET signed == Len(s) > 0 /\ s[1] \in {"+", "-"}
        body == IF signed THEN Tail(s) ELSE s
    IN  IF body # <<>> /\ \A k \in 1..Len(body) : body[k] \in Digits
          THEN [exc |-> "none",
                v |-> IF signed /\ s[1] = "-" THEN -DigitsToNat(body, 0)
                                              ELSE DigitsToNat(body, 0)]
          ELSE [exc |-> "ValueError", v |-> 0]

\* int(x): a TypeError for None, a ValueError for text that is no number.
PyIntOf(x) ==
    CASE x.t = "int" -> [exc |-> "none", v |-> x.n]
      [] x.t = "None" -> [exc |-> "TypeError", v |-> 0]
      [] OTHER -> IntOfText(x.s)

\* str(n) for n >= 0
RECURSIVE NatToStr(_)
NatToStr(n) ==
    IF n < 10 THEN <<DigitChars[n + 1]>>
    ELSE NatToStr(n \div 10) \o <<DigitChars[(n % 10) + 1]>>

Upper(c) ==
    CASE c = "p" -> "P" [] c = "t" -> "T" [] c = "w" -> "W" [] c = "d" -> "D"
      [] c = "h" -> "H" [] c = "m" -> "M" [] c = "s" -> "S" [] c = "z" -> "Z"
      [] c = EOF -> "EOF"
      [] OTHER -> c

Abs(n) == IF n < 0 THEN -n ELSE n

-----------------------------------------------------------------------------
(* Durations.  A timedelta is its number of whole seconds; its days and    *)
(* seconds attributes are the floored quotient and the remainder by 86400. *)

TdDays(delta) == delta \div 86400
TdSeconds(delta) == delta % 86400

\* timedeltaToString without the minus sign of a negative timedelta.
timedeltaToString_NoSign(delta) ==
    LET a == Abs(delta)
        days == TdDays(a)
        hours == TdSeconds(a) \div 3600
        minutes == (TdSeconds(a) % 3600) \div 60
        seconds == TdSeconds(a) % 60
    IN  <<"P">>
        \o (IF days # 0 THEN NatToStr(days) \o <<"D">> ELSE <<>>)
        \o (IF hours # 0 \/ minutes # 0 \/ seconds # 0 THEN <<"T">>
            ELSE IF days = 0 THEN <<"0", "S">> ELSE <<>>)
        \o (IF hours # 0 THEN NatToStr(hours) \o <<"H">> ELSE <<>>)
        \o (IF minutes # 0 THEN NatToStr(minutes) \o <<"M">> ELSE <<>>)
        \o (IF seconds # 0 THEN NatToStr(seconds) \o <<"S">> ELSE <<>>)

timedeltaToString(delta) ==
    LET sign == IF TdDays(delta) = 0 THEN 1
                ELSE TdDays(delta) \div Abs(TdDays(delta))
        a == Abs(delta)
        days == TdDays(a)
        hours == TdSeconds(a) \div 3600
        minutes == (TdSeconds(a) % 3600) \div 60
        seconds == TdSeconds(a) % 60
    IN  (IF sign = -1 THEN <<"-">> ELSE <<>>)
        \o <<"P">>
        \o (IF days # 0 THEN NatToStr(days) \o <<"D">> ELSE <<>>)
        \o (IF hours # 0 \/ minutes # 0 \/ seconds # 0 THEN <<"T">>
            ELSE IF days = 0 THEN <<"0", "S">> ELSE <<>>)
        \o (IF hours # 0 THEN NatToStr(hours) \o <<"H">> ELSE <<>>)
        \o (IF minutes # 0 THEN NatToStr(minutes) \o <<"M">> ELSE <<>>)
        \o (IF seconds # 0 THEN NatToStr(seconds) \o <<"S">> ELSE <<>>)

\* int() of week, day, hour, minute, sec in that order: the first that fails
\* decides the exception.
makeTimedelta(sign, week, day, hour, minute, sec) ==
    LET sg == IF sign.t = "str" /\ sign.s = <<"-">> THEN -1 ELSE 1
        w == PyIntOf(week)
        d == PyIntOf(day)
        h == PyIntOf(hour)
        m == PyIntOf(minute)
        s == PyIntOf(sec)
    IN  IF w.exc # "none" THEN [exc |-> w.exc, v |-> 0]
        ELSE IF d.exc # "none" THEN [exc |-> d.exc, v |-> 0]
        ELSE IF h.exc # "none" THEN [exc |-> h.exc, v |-> 0]
        ELSE IF m.exc # "none" THEN [exc |-> m.exc, v |-> 0]
        ELSE IF s.exc # "none" THEN [exc |-> s.exc, v |-> 0]
        ELSE [exc |-> "none",
              v |-> sg * (w.v * 604800 + d.v * 86400 + h.v * 3600 + m.v * 60 + s.v)]

DurStart ==
    [state |-> "start", durations |-> <<>>, current |-> <<>>, sign |-> PyNone,
     week |-> PyInt(0), day |-> PyInt(0), hour |-> PyInt(0),
     minute |-> PyInt(0), sec |-> PyInt(0)]

DurRaise(exc, st) == [exc |-> exc, durations |-> st.durations]

\* The loop of stringToDurations from its i-th iteration on.  When the
\* iterator is exhausted the handler runs charIndex += 1, which is an
\* UnboundLocalError when no character was ever read.
RECURSIVE DurLoop(_, _, _)
DurLoop(s, i, st) ==
    LET char == IF i <= Len(s) THEN s[i] ELSE EOF
        made == makeTimedelta(st.sign, st.week, st.day, st.hour, st.minute, st.sec)
    IN
    IF i > Len(s) /\ Len(s) = 0 THEN DurRaise("UnboundLocalError", st)
    ELSE
    CASE st.state = "start" ->
            IF char \in {"+", "-"}
              THEN DurLoop(s, i + 1, [st EXCEPT !.sign = PyStr(<<char>>)])
            ELSE IF Upper(char) = "P"
              THEN DurLoop(s, i + 1, [st EXCEPT !.state = "read field"])
            ELSE IF char = EOF
              THEN DurRaise("ParseError", st)
            ELSE IF char \in Digits
              THEN DurLoop(s, i + 1, [st EXCEPT !.state = "read field",
                                                !.current = @ \o <<char>>])
            ELSE DurRaise("ParseError", st)
      [] st.state = "read field" ->
            IF char \in Digits
              THEN DurLoop(s, i + 1, [st EXCEPT !.current = @ \o <<char>>])
            ELSE IF Upper(char) = "T"
              THEN DurLoop(s, i + 1, st)
            ELSE IF Upper(char) = "W"
              THEN DurLoop(s, i + 1, [st EXCEPT !.week = PyStr(st.current),
                                                !.current = <<>>])
            ELSE IF Upper(char) = "D"
              THEN DurLoop(s, i + 1, [st EXCEPT !.day = PyStr(st.current),
                                                !.current = <<>>])
            ELSE IF Upper(char) = "H"
              THEN DurLoop(s, i + 1, [st EXCEPT !.hour = PyStr(st.current),
                                                !.current = <<>>])
            ELSE IF Upper(char) = "M"
              THEN DurLoop(s, i + 1, [st EXCEPT !.minute = PyStr(st.current),
                                                !.current = <<>>])
            ELSE IF Upper(char) = "S"
              THEN DurLoop(s, i + 1, [st EXCEPT !.sec = PyStr(st.current),
                                                !.current = <<>>])
            ELSE IF char = COMMA
              THEN IF made.exc # "none" THEN DurRaise(made.exc, st)
                   ELSE DurLoop(s, i + 1,
                           [state |-> "start",
                            durations |-> Append(st.durations, made.v),
                            current |-> <<>>, sign |-> PyNone,
                            week |-> PyNone, day |-> PyNone, hour |-> PyNone,
                            minute |-> PyNone, sec |-> PyNone])
            ELSE IF char = EOF
              THEN DurLoop(s, i + 1, [st EXCEPT !.state = "end"])
            ELSE DurRaise("ParseError", st)
      [] st.state = "end" ->
            IF Truthy(st.sign) \/ Truthy(st.week) \/ Truthy(st.day)
               \/ Truthy(st.hour) \/ Truthy(st.minute) \/ Truthy(st.sec)
              THEN IF made.exc # "none" THEN DurRaise(made.exc, st)
                   ELSE [exc |-> "none", durations |-> Append(st.durations, made.v)]
              ELSE [exc |-> "none", durations |-> st.durations]
      [] OTHER -> DurRaise("ParseError", st)

stringToDurations(s) == DurLoop(s, 1, DurStart)

-----------------------------------------------------------------------------
(* The duration specification: a timedelta is formatted and the text       *)
(* parsed back; or a text (well-formed durations joined by commas, or      *)
(* arbitrary characters) is parsed.                                        *)

DeltaValues ==
    {sg * (d * 86400 + h * 3600 + m * 60 + s) :
        sg \in {-1, 1}, d \in (0..MaxDays) \cup {10, 365},
        h \in {0, 1, 23}, m \in {0, 1, 59}, s \in {0, 1, 59}}

DurSegments ==
    { [text |-> <<"P", "T", "1", "H">>, secs |-> 3600],
      [text |-> <<"P", "T", "2", "H">>, secs |-> 7200],
      [text |-> <<"-", "P", "1", "D">>, secs |-> -86400],
      [text |-> <<"P", "1", "W">>, secs |-> 604800],
      [text |-> <<"+", "P", "T", "3", "0", "M">>, secs |-> 1800],
      [text |-> <<"P", "1", "W", "1", "D", "T", "1", "H", "1", "M", "1", "S">>,
       secs |-> 694861] }

DurAlphabet == {"-", "P", "T", "1", "H", COMMA}

SegTexts(segs) == [k \in 1..Len(segs) |-> segs[k].text]

SegSecs(segs) == [k \in 1..Len(segs) |-> segs[k].secs]

DurInit ==
    /\ vObj = NoComponent
    /\ vRaise = FALSE
    /\ vResult = "none"
    /\ node = NoNode
    /\ nOrig = NoNode
    /\ tzidMap = InitialTzidMap
    /\ nLog = <<>>
    /\ tvOrig = <<>>
    /\ tvLine = [value |-> <<>>, encoded |-> FALSE]
    /\ tvOps = <<>>
    /\ tvIn = <<>>
    /\ tvStrict = FALSE
    /\ tvOut = NoCall
    /\ durOut = NoDurCall
    /\ \/ /\ durSrc = "delta"
          /\ durDelta \in DeltaValues
          /\ durSegs = <<>>
          /\ durText = <<>>
       \/ /\ durSrc = "segments"
          /\ durDelta = 0
          /\ durSegs \in UNION {[1..k -> DurSegments] : k \in 1..MaxDurSegs}
          /\ durText = Join(SegTexts(durSegs), <<COMMA>>)
       \/ /\ durSrc = "text"
          /\ durDelta = 0
          /\ durSegs = <<>>
          /\ durText \in StringsUpTo(DurAlphabet, MaxDurLen)
    /\ rcComp = <<>>
    /\ rcOut = <<>>
    /\ tzComp = <<>>
    /\ tzArgs = <<>>
    /\ calObj = <<>>
    /\ calDone = FALSE
    /\ regProcs = <<>>
    /\ regWrites = <<>>
    /\ calCalls = <<>>
    /\ calExc = "none"

\* timedeltaToString(delta)
FormatDelta ==
    /\ durSrc = "delta"
    /\ durText = <<>>
    /\ durText' = timedeltaToString(durDelta)
    /\ UNCHANGED <<durSrc, durDelta, durSegs, durOut>>
    /\ UNCHANGED <<textVars, valVars, nodeVars>>
    /\ UNCHANGED recurVars
    /\ UNCHANGED tzVars
    /\ UNCHANGED calVars
    /\ UNCHANGED regVars
    /\ UNCHANGED implVars

\* stringToDurations(s)
ParseDurations ==
    /\ ~durOut.called
    /\ durSrc = "delta" => durText # <<>>
    /\ LET r == stringToDurations(durText) IN
         durOut' = [called |-> TRUE, exc |-> r.exc, durations |-> r.durations]
    /\ UNCHANGED <<durSrc, durDelta, durSegs, durText>>
    /\ UNCHANGED <<textVars, valVars, nodeVars>>
    /\ UNCHANGED recurVars
    /\ UNCHANGED tzVars
    /\ UNCHANGED calVars
    /\ UNCHANGED regVars
    /\ UNCHANGED implVars



-----------------------------------------------------------------------------
(* Values of a content line: text, or a typed object *)

Str(s) == [t |-> "str", s |-> s]
NoneV == [t |-> "None"]
DateV(y, m, d) == [t |-> "date", year |-> y, month |-> m, day |-> d]
DateTimeV(y, mo, d, h, mi, s, tz) ==
    [t |-> "datetime", year |-> y, month |-> mo, day |-> d,
     hour |-> h, minute |-> mi, second |-> s, tzinfo |-> tz]
TimedeltaV(secs) == [t |-> "timedelta", secs |-> secs]
ListV(items) == [t |-> "list", items |-> items]
TupleV(start, delta) == [t |-> "tuple", start |-> start, delta |-> delta]

\* Time sources: a tzid and a fixed offset from UTC in hours.
utc == [t |-> "tzinfo", tzid |-> "UTC", offset |-> 0]
Eastern == [t |-> "tzinfo", tzid |-> "EST", offset |-> -5]

\* s[a:b] of Python, a and b counted from 0
Slice(s, a, b) ==
    LET hi == IF b < Len(s) THEN b ELSE Len(s) IN
    IF a >= hi THEN <<>> ELSE SubSeq(s, a + 1, hi)

IsLeap(y) == (y % 4 = 0 /\ y % 100 # 0) \/ y % 400 = 0

DaysInMonth(y, m) ==
    IF m = 2 THEN (IF IsLeap(y) THEN 29 ELSE 28)
    ELSE IF m \in {4, 6, 9, 11} THEN 30 ELSE 31

\* What datetime.date(year, month, day) accepts
ValidDate(y, m, d) ==
    /\ y >= 1 /\ y <= 9999
    /\ m >= 1 /\ m <= 12
    /\ d >= 1 /\ d <= DaysInMonth(y, m)

ValidTime(h, mi, s) ==
    /\ h >= 0 /\ h <= 23
    /\ mi >= 0 /\ mi <= 59
    /\ s >= 0 /\ s <= 59

RECURSIVE DaysBeforeMonth(_, _)
DaysBeforeMonth(y, m) ==
    IF m <= 1 THEN 0 ELSE DaysBeforeMonth(y, m - 1) + DaysInMonth(y, m - 1)

\* date.toordinal
Ordinal(y, m, d) ==
    365 * (y - 1) + ((y - 1) \div 4) - ((y - 1) \div 100) + ((y - 1) \div 400)
    + DaysBeforeMonth(y, m) + d

\* b - a in seconds, for two datetimes that both have a zone or both have none
SecondsBetween(a, b) ==
    (Ordinal(b.year, b.month, b.day) - Ordinal(a.year, a.month, a.day)) * 86400
    + (b.hour - a.hour) * 3600 + (b.minute - a.minute) * 60
    + (b.second - a.second)
    - (IF a.tzinfo = NoneV THEN 0 ELSE (b.tzinfo.offset - a.tzinfo.offset) * 3600)

PrevDay(dt) ==
    IF dt.day > 1 THEN [dt EXCEPT !.day = @ - 1]
    ELSE IF dt.month > 1
      THEN [dt EXCEPT !.month = @ - 1, !.day = DaysInMonth(dt.year, dt.month - 1)]
    ELSE [dt EXCEPT !.year = @ - 1, !.month = 12, !.day = 31]

NextDay(dt) ==
    IF dt.day < DaysInMonth(dt.year, dt.month) THEN [dt EXCEPT !.day = @ + 1]
    ELSE IF dt.month < 12 THEN [dt EXCEPT !.month = @ + 1, !.day = 1]
    ELSE [dt EXCEPT !.year = @ + 1, !.month = 1, !.day = 1]

\* dateTime.astimezone(utc) for a zone of a whole-hour offset
AsUtc(dt) ==
    LET h == dt.hour - dt.tzinfo.offset
        moved == IF h < 0 THEN [PrevDay(dt) EXCEPT !.hour = h + 24]
                 ELSE IF h > 23 THEN [NextDay(dt) EXCEPT !.hour = h - 24]
                 ELSE [dt EXCEPT !.hour = h]
    IN  [moved EXCEPT !.tzinfo = utc]

numToDigits(num, places) ==
    LET s == NatToStr(num) IN
    IF Len(s) < places THEN [k \in 1..(places - Len(s)) |-> "0"] \o s
    ELSE IF Len(s) > places THEN SubSeq(s, Len(s) - places + 1, Len(s))
    ELSE s

dateToString(date) ==
    numToDigits(date.year, 4) \o numToDigits(date.month, 2)
    \o numToDigits(date.day, 2)

dateTimeToString(dateTime, preserveTZ) ==
    LET dt == IF dateTime.tzinfo # NoneV /\ ~preserveTZ
                THEN AsUtc(dateTime) ELSE dateTime
        utcString == IF dt.tzinfo = utc THEN <<"Z">> ELSE <<>>
    IN  numToDigits(dt.year, 4) \o numToDigits(dt.month, 2)
        \o numToDigits(dt.day, 2) \o <<"T">> \o numToDigits(dt.hour, 2)
        \o numToDigits(dt.minute, 2) \o numToDigits(dt.second, 2) \o utcString

\* str(value), as the transforms apply it to obj.value: the text itself,
\* "None", or the ISO form of a date or datetime; other objects print as a
\* text no parser accepts.
PyStrOf(v) ==
    CASE v.t = "str" -> v.s
      [] v.t = "None" -> <<"N", "o", "n", "e">>
      [] v.t = "date" ->
           numToDigits(v.year, 4) \o <<"-">> \o numToDigits(v.month, 2)
           \o <<"-">> \o numToDigits(v.day, 2)
      [] v.t = "datetime" ->
           numToDigits(v.year, 4) \o <<"-">> \o numToDigits(v.month, 2)
           \o <<"-">> \o numToDigits(v.day, 2) \o <<" ">>
           \o numToDigits(v.hour, 2) \o <<":">> \o numToDigits(v.minute, 2)
           \o <<":">> \o numToDigits(v.second, 2)
      [] OTHER -> <<"<", v.t, ">">>

Raise(exc) == [exc |-> exc, v |-> NoneV]
Return(v) == [exc |-> "none", v |-> v]

stringToDate(s) ==
    LET year == IntOfText(Slice(s, 0, 4))
        month == IntOfText(Slice(s, 4, 6))
        day == IntOfText(Slice(s, 6, 8))
    IN  IF year.exc # "none" \/ month.exc # "none" \/ day.exc # "none"
          THEN Raise("ValueError")
        ELSE IF ~ValidDate(year.v, month.v, day.v) THEN Raise("ValueError")
        ELSE Return(DateV(year.v, month.v, day.v))

\* The int() calls are inside the try (ParseError), the datetime constructor
\* is outside it (ValueError).
stringToDateTime(s, tzinfo) ==
    LET year == IntOfText(Slice(s, 0, 4))
        month == IntOfText(Slice(s, 4, 6))
        day == IntOfText(Slice(s, 6, 8))
        hour == IntOfText(Slice(s, 9, 11))
        minute == IntOfText(Slice(s, 11, 13))
        second == IntOfText(Slice(s, 13, 15))
        tz == IF Len(s) > 15 /\ s[16] = "Z" THEN utc ELSE tzinfo
    IN  IF \E f \in {year, month, day, hour, minute, second} : f.exc # "none"
          THEN Raise("ParseError")
        ELSE IF ~ValidDate(year.v, month.v, day.v)
                \/ ~ValidTime(hour.v, minute.v, second.v)
          THEN Raise("ValueError")
        ELSE Return(DateTimeV(year.v, month.v, day.v,
                              hour.v, minute.v, second.v, tz))

\* string.split(s, sep): the pieces of s between the separators
RECURSIVE SplitLoop(_, _, _, _)
SplitLoop(s, sep, current, pieces) ==
    IF Len(s) = 0 THEN Append(pieces, current)
    ELSE IF Head(s) = sep THEN SplitLoop(Tail(s), sep, <<>>, Append(pieces, current))
    ELSE SplitLoop(Tail(s), sep, current \o <<Head(s)>>, pieces)

Split(s, sep) == SplitLoop(s, sep, <<>>, <<>>)

\* string.find(upper(s), "P"): the 0-based place of the first P, or -1
FindP(s) ==
    IF \E k \in 1..Len(s) : Upper(s[k]) = "P"
      THEN (CHOOSE k \in 1..Len(s) :
              /\ Upper(s[k]) = "P"
              /\ \A j \in 1..(k - 1) : Upper(s[j]) # "P") - 1
      ELSE -1

isDuration(s) == FindP(s) # -1 /\ FindP(s) < 2

stringToPeriod(s, tzinfo) ==
    LET values == Split(s, "/")
        start == stringToDateTime(values[1], tzinfo)
    IN  IF start.exc # "none" THEN start
        ELSE IF Len(values) < 2 THEN Raise("IndexError")
        ELSE IF isDuration(values[2])
          THEN LET ds == stringToDurations(values[2]) IN
               IF ds.exc # "none" THEN Raise(ds.exc)
               ELSE IF Len(ds.durations) = 0 THEN Raise("IndexError")
               ELSE Return(TupleV(start.v, TimedeltaV(ds.durations[1])))
        ELSE LET end == stringToDateTime(values[2], tzinfo) IN
             IF end.exc # "none" THEN end
             ELSE IF (start.v.tzinfo = NoneV) # (end.v.tzinfo = NoneV)
               THEN Raise("TypeError")
             ELSE Return(TupleV(start.v,
                                TimedeltaV(SecondsBetween(start.v, end.v))))

-----------------------------------------------------------------------------
(* The TZID registry *)

\* registerTzid that keeps an entry the registry already has
registerTzid_KeepFirst(map, tzid, tzinfo) ==
    IF tzid \in DOMAIN map THEN map ELSE map @@ (tzid :> tzinfo)

registerTzid(map, tzid, tzinfo) ==
    IF tzid \in DOMAIN map THEN [map EXCEPT ![tzid] = tzinfo]
    ELSE map @@ (tzid :> tzinfo)

\* Where Python has a string or None, None is this marker.
NoTzid == "<None>"

\* getTzid(tzid): the registered time source, or None
getTzid(map, tzid) == IF tzid \in DOMAIN map THEN map[tzid] ELSE NoneV

\* TimezoneComponent.pickTzid for a time source that has a tzid attribute
pickTzid(tzinfo) ==
    IF tzinfo = NoneV \/ tzinfo = utc THEN NoTzid ELSE tzinfo.tzid

\* TimezoneComponent.registerTzinfo: the registry afterwards
registerTzinfo(map, tzinfo) ==
    LET tzid == pickTzid(tzinfo) IN
    IF tzid # NoTzid /\ tzid # "" /\ getTzid(map, tzid) = NoneV
      THEN registerTzid(map, tzid, tzinfo)
      ELSE map

-----------------------------------------------------------------------------
(* Content lines and the value behaviors.  A node is                       *)
(* [behavior, cls, value, params, isNative]; params maps a parameter name  *)
(* to its list of values.  A transform returns [obj, map, exc]: the node   *)
(* and the TZID registry as it leaves them, and the exception it raised.   *)

Done(obj, map) == [obj |-> obj, map |-> map, exc |-> "none"]
Fails(obj, map, exc) == [obj |-> obj, map |-> map, exc |-> exc]

\* obj.params.get(name, [default])[0]
ParamOr(obj, name, default) ==
    IF name \in DOMAIN obj.params THEN obj.params[name][1] ELSE default

\* del obj.params[name]
DelParam(params, name) == [k \in (DOMAIN params) \ {name} |-> params[k]]

\* obj.params[name] = [val]
SetParam(params, name, val) ==
    [k \in (DOMAIN params) \cup {name} |-> IF k = name THEN <<val>> ELSE params[k]]

UpperValue(v) ==
    CASE v = "date" -> "DATE" [] v = "date-time" -> "DATE-TIME"
      [] v = "period" -> "PERIOD" [] v = "duration" -> "DURATION"
      [] OTHER -> v

IsEmptyText(v) == v.t = "str" /\ v.s = <<>>

HasTzinfo(v) == v.t = "datetime"

\* parseDtstart taking DATE as the VALUE of a line that has none
parseDtstart_DateDefault(contentline, map) ==
    LET tzinfo == getTzid(map, ParamOr(contentline, "TZID", NoTzid))
        valueParam == ParamOr(contentline, "VALUE", "DATE")
    IN  IF UpperValue(valueParam) = "DATE"
          THEN stringToDate(contentline.value.s)
        ELSE IF UpperValue(valueParam) = "DATE-TIME"
          THEN stringToDateTime(contentline.value.s, tzinfo)
        ELSE Return(NoneV)

parseDtstart(contentline, map) ==
    LET tzinfo == getTzid(map, ParamOr(contentline, "TZID", NoTzid))
        valueParam == ParamOr(contentline, "VALUE", "DATE-TIME")
    IN  IF UpperValue(valueParam) = "DATE"
          THEN stringToDate(contentline.value.s)
        ELSE IF UpperValue(valueParam) = "DATE-TIME"
          THEN stringToDateTime(contentline.value.s, tzinfo)
        ELSE Return(NoneV)

\* DateTimeBehavior.transformToNative without its "if obj.isNative" guard
DateTimeBehavior_transformToNative_NoGuard(obj, map) ==
      LET o1 == [obj EXCEPT !.isNative = TRUE, !.value = Str(PyStrOf(obj.value))]
          parsed == parseDtstart(o1, map)
          o2 == [o1 EXCEPT !.value = parsed.v]
          o3 == IF o2.value.tzinfo = NoneV
                  THEN [o2 EXCEPT !.params =
                          SetParam(@, "X-VOBJ-FLOATINGTIME-ALLOWED", "TRUE")]
                  ELSE o2
          o4 == IF "TZID" \in DOMAIN o3.params
                  THEN [o3 EXCEPT !.params = DelParam(@, "TZID")]
                  ELSE o3
      IN  IF parsed.exc # "none" THEN Fails(o1, map, parsed.exc)
          ELSE IF ~HasTzinfo(o2.value) THEN Fails(o2, map, "AttributeError")
          ELSE Done(o4, map)

DateTimeBehavior_transformToNative(obj, map) ==
    IF obj.isNative THEN Done(obj, map)
    ELSE
      LET o1 == [obj EXCEPT !.isNative = TRUE, !.value = Str(PyStrOf(obj.value))]
          parsed == parseDtstart(o1, map)
          o2 == [o1 EXCEPT !.value = parsed.v]
          o3 == IF o2.value.tzinfo = NoneV
                  THEN [o2 EXCEPT !.params =
                          SetParam(@, "X-VOBJ-FLOATINGTIME-ALLOWED", "TRUE")]
                  ELSE o2
          o4 == IF "TZID" \in DOMAIN o3.params
                  THEN [o3 EXCEPT !.params = DelParam(@, "TZID")]
                  ELSE o3
      IN  IF parsed.exc # "none" THEN Fails(o1, map, parsed.exc)
          ELSE IF ~HasTzinfo(o2.value) THEN Fails(o2, map, "AttributeError")
          ELSE Done(o4, map)

DateTimeBehavior_transformFromNative(obj, map, preserveTZ) ==
    IF obj.isNative
      THEN
        LET o1 == [obj EXCEPT !.isNative = FALSE]
            tzid == pickTzid(obj.value.tzinfo)
            map2 == registerTzinfo(map, obj.value.tzinfo)
            o2 == [o1 EXCEPT !.value = Str(dateTimeToString(obj.value, preserveTZ))]
            o3 == IF preserveTZ /\ tzid # NoTzid
                    THEN [o2 EXCEPT !.params = SetParam(@, "TZID", tzid)]
                    ELSE o2
        IN  IF ~HasTzinfo(obj.value) THEN Fails(o1, map, "AttributeError")
            ELSE Done(o3, map2)
      ELSE Done(obj, map)

UTCDateTimeBehavior_transformFromNative(obj, map) ==
    DateTimeBehavior_transformFromNative(obj, map, FALSE)

DateOrDateTimeBehavior_transformToNative(obj, map) ==
    IF obj.isNative THEN Done(obj, map)
    ELSE
      LET o1 == [obj EXCEPT !.isNative = TRUE]
          o2 == [o1 EXCEPT !.value = Str(PyStrOf(obj.value))]
          parsed == parseDtstart(o2, map)
          o3 == [o2 EXCEPT !.value = parsed.v]
          o4 == IF ParamOr(o3, "VALUE", "DATE-TIME") = "DATE-TIME"
                   /\ "TZID" \in DOMAIN o3.params
                  THEN [o3 EXCEPT !.params = DelParam(@, "TZID")]
                  ELSE o3
      IN  IF IsEmptyText(obj.value) THEN Done(o1, map)
          ELSE IF parsed.exc # "none" THEN Fails(o2, map, parsed.exc)
          ELSE Done(o4, map)

DateOrDateTimeBehavior_transformFromNative(obj, map) ==
    IF obj.value.t = "date"
      THEN Done([obj EXCEPT !.isNative = FALSE,
                            !.params = SetParam(@, "VALUE", "DATE"),
                            !.value = Str(dateToString(obj.value))], map)
      ELSE DateTimeBehavior_transformFromNative(obj, map, TRUE)

\* [f(x) for x in valTexts]: the list, or the first exception
RECURSIVE ParseEach(_, _, _, _)
ParseOne(kind, x, tzinfo) ==
    CASE kind = "DATE" -> stringToDate(x)
      [] kind = "DATE-TIME" -> stringToDateTime(x, tzinfo)
      [] OTHER -> stringToPeriod(x, tzinfo)

ParseNext(kind, valTexts, tzinfo, acc, r) ==
    IF r.exc # "none" THEN r
    ELSE ParseEach(kind, Tail(valTexts), tzinfo, Append(acc, r.v))

ParseEach(kind, valTexts, tzinfo, acc) ==
    IF Len(valTexts) = 0 THEN Return(ListV(acc))
    ELSE ParseNext(kind, valTexts, tzinfo, acc,
                   ParseOne(kind, Head(valTexts), tzinfo))

MultiDateBehavior_transformToNative(obj, map) ==
    IF obj.isNative THEN Done(obj, map)
    ELSE
      LET o1 == [obj EXCEPT !.isNative = TRUE]
          tzinfo == getTzid(map, ParamOr(obj, "TZID", "UTC"))
          valueParam == UpperValue(ParamOr(obj, "VALUE", "DATE-TIME"))
      IN  IF IsEmptyText(obj.value) THEN Done([o1 EXCEPT !.value = ListV(<<>>)], map)
          ELSE IF obj.value.t # "str" THEN Fails(o1, map, "AttributeError")
          ELSE IF valueParam \in {"DATE", "DATE-TIME", "PERIOD"}
            THEN LET parsed == ParseEach(valueParam, Split(obj.value.s, COMMA),
                                         tzinfo, <<>>)
                 IN  IF parsed.exc # "none" THEN Fails(o1, map, parsed.exc)
                     ELSE Done([o1 EXCEPT !.value = parsed.v], map)
          ELSE Done(o1, map)

\* The loop of MultiDateBehavior.transformFromNative over the rest of the
\* values: st is [obj, map, tzid, transformed].
RECURSIVE MultiDateLoop(_, _)
MultiDateLoop(vals, st) ==
    IF Len(vals) = 0
      THEN Done([st.obj EXCEPT !.value = Str(Join(st.transformed, <<COMMA>>))],
                st.map)
    ELSE
      LET val == Head(vals)
          pick == st.tzid = NoTzid /\ val.t = "datetime"
          tzid == IF pick THEN pickTzid(val.tzinfo) ELSE st.tzid
          found == pick /\ tzid # NoTzid
          o1 == IF found
                  THEN [st.obj EXCEPT !.params = SetParam(@, "TZID", tzid)]
                  ELSE st.obj
          map1 == IF found THEN registerTzinfo(st.map, val.tzinfo) ELSE st.map
      IN  IF ~HasTzinfo(val) THEN Fails(o1, map1, "AttributeError")
          ELSE MultiDateLoop(Tail(vals),
                  [obj |-> o1, map |-> map1, tzid |-> tzid,
                   transformed |-> Append(st.transformed,
                                          dateTimeToString(val, TRUE))])

\* What "for val in obj.value" iterates over: the items of a list, the
\* characters of a string; other values are not iterable.
Iterated(v) ==
    CASE v.t = "list" -> v.items
      [] v.t = "str" -> [k \in 1..Len(v.s) |-> Str(<<v.s[k]>>)]
      [] OTHER -> <<>>

MultiDateBehavior_transformFromNative(obj, map) ==
    IF obj.value.t = "date"
      THEN Fails([obj EXCEPT !.isNative = FALSE,
                             !.params = SetParam(@, "VALUE", "DATE")],
                 map, "TypeError")
    ELSE IF obj.isNative
      THEN LET o1 == [obj EXCEPT !.isNative = FALSE] IN
           IF obj.value.t \notin {"list", "str"} THEN Fails(o1, map, "TypeError")
           ELSE MultiDateLoop(Iterated(obj.value),
                              [obj |-> o1, map |-> map, tzid |-> NoTzid,
                               transformed |-> <<>>])
    ELSE Done(obj, map)

Duration_transformToNative(obj, map) ==
    IF obj.isNative THEN Done(obj, map)
    ELSE
      LET o1 == [obj EXCEPT !.isNative = TRUE, !.value = Str(PyStrOf(obj.value))]
          deltalist == stringToDurations(o1.value.s)
      IN  IF o1.value.s = <<>> THEN Done(o1, map)
          ELSE IF deltalist.exc # "none" THEN Fails(o1, map, deltalist.exc)
          ELSE IF Len(deltalist.durations) = 1
            THEN Done([o1 EXCEPT !.value = TimedeltaV(deltalist.durations[1])], map)
          ELSE Fails(o1, map, "VObjectError")

Duration_transformFromNative(obj, map) ==
    IF ~obj.isNative THEN Done(obj, map)
    ELSE
      LET o1 == [obj EXCEPT !.isNative = FALSE] IN
      IF obj.value.t # "timedelta" THEN Fails(o1, map, "AttributeError")
      ELSE Done([o1 EXCEPT !.value = Str(timedeltaToString(obj.value.secs))], map)

Trigger_transformToNative(obj, map) ==
    LET value == ParamOr(obj, "VALUE", "DURATION")
        o1 == [obj EXCEPT !.params = DelParam(@, "VALUE")]
    IN  IF IsEmptyText(o1.value) THEN Done([o1 EXCEPT !.isNative = TRUE], map)
        ELSE IF value = "DURATION" THEN Duration_transformToNative(o1, map)
        ELSE IF value = "DATE-TIME" THEN DateTimeBehavior_transformToNative(o1, map)
        ELSE Fails(o1, map, "NativeError")

Trigger_transformFromNative(obj, map) ==
    IF obj.value.t = "datetime"
      THEN DateTimeBehavior_transformFromNative(
               [obj EXCEPT !.params = SetParam(@, "VALUE", "DATE-TIME")], map, TRUE)
    ELSE IF obj.value.t = "timedelta" THEN Duration_transformFromNative(obj, map)
    ELSE Fails(obj, map, "NativeError")

\* The component behaviors: the node's class is re-tagged.
RecurringBehavior_transformToNative(obj, map) ==
    IF ~obj.isNative
      THEN Done([obj EXCEPT !.cls = "RecurringComponent", !.isNative = TRUE], map)
      ELSE Done(obj, map)

RecurringBehavior_transformFromNative(obj, map) ==
    IF obj.isNative
      THEN Done([obj EXCEPT !.cls = "Component", !.isNative = FALSE], map)
      ELSE Done(obj, map)

\* obj.tzinfo of a VTIMEZONE component is the time source dateutil's tzical
\* reads from it; the node's value stands for it.
VTimezone_transformToNative(obj, map) ==
    IF ~obj.isNative
      THEN Done([obj EXCEPT !.cls = "TimezoneComponent", !.isNative = TRUE],
                registerTzinfo(map, obj.value))
      ELSE Done(obj, map)

VTimezone_transformFromNative(obj, map) == Done(obj, map)

\* The transform of the behavior registered for the node
transformToNative(obj, map) ==
    CASE obj.behavior \in {"DateTime", "UtcDateTime"} ->
            DateTimeBehavior_transformToNative(obj, map)
      [] obj.behavior = "DateOrDateTime" ->
            DateOrDateTimeBehavior_transformToNative(obj, map)
      [] obj.behavior = "MultiDate" -> MultiDateBehavior_transformToNative(obj, map)
      [] obj.behavior = "Duration" -> Duration_transformToNative(obj, map)
      [] obj.behavior = "Trigger" -> Trigger_transformToNative(obj, map)
      [] obj.behavior = "Recurring" -> RecurringBehavior_transformToNative(obj, map)
      [] OTHER -> VTimezone_transformToNative(obj, map)

transformFromNative(obj, map) ==
    CASE obj.behavior = "DateTime" ->
            DateTimeBehavior_transformFromNative(obj, map, TRUE)
      [] obj.behavior = "UtcDateTime" ->
            UTCDateTimeBehavior_transformFromNative(obj, map)
      [] obj.behavior = "DateOrDateTime" ->
            DateOrDateTimeBehavior_transformFromNative(obj, map)
      [] obj.behavior = "MultiDate" -> MultiDateBehavior_transformFromNative(obj, map)
      [] obj.behavior = "Duration" -> Duration_transformFromNative(obj, map)
      [] obj.behavior = "Trigger" -> Trigger_transformFromNative(obj, map)
      [] obj.behavior = "Recurring" -> RecurringBehavior_transformFromNative(obj, map)
      [] OTHER -> VTimezone_transformFromNative(obj, map)

-----------------------------------------------------------------------------
(* Components and their validation.  A node is [name, contents]; contents  *)
(* maps the lower-cased name of a child to the list of children so named.  *)
(* A content line is a node without contents.                              *)

ComponentNames ==
    {"VCALENDAR", "VTIMEZONE", "STANDARD", "DAYLIGHT", "VEVENT", "VTODO",
     "VJOURNAL", "VFREEBUSY", "VALARM"}

Lower(name) ==
    CASE name = "DTSTART" -> "dtstart" [] name = "DTEND" -> "dtend"
      [] name = "DUE" -> "due" [] name = "DURATION" -> "duration"
      [] name = "TZID" -> "tzid" [] name = "ACTION" -> "action"
      [] name = "TRIGGER" -> "trigger" [] name = "PRODID" -> "prodid"
      [] name = "VERSION" -> "version" [] name = "UID" -> "uid"
      [] name = "RRULE" -> "rrule" [] name = "VALARM" -> "valarm"
      [] name = "VEVENT" -> "vevent" [] name = "VTODO" -> "vtodo"
      [] name = "VTIMEZONE" -> "vtimezone" [] name = "STANDARD" -> "standard"
      [] name = "DAYLIGHT" -> "daylight" [] name = "VJOURNAL" -> "vjournal"
      [] name = "VFREEBUSY" -> "vfreebusy" [] name = "VCALENDAR" -> "vcalendar"
      [] OTHER -> name

\* Component.add: the child goes to the end of the list kept under its
\* lower-cased name.
AddTo(contents, child) ==
    LET key == Lower(child.name) IN
    IF key \in DOMAIN contents
      THEN [contents EXCEPT ![key] = Append(@, child)]
      ELSE contents @@ (key :> <<child>>)

\* Component.getChildren, as a set of <<key, index>> places
ChildPlaces(obj) ==
    {<<k, i>> \in (DOMAIN obj.contents) \X (1..MaxChildren + 1) :
        i <= Len(obj.contents[k])}

\* count[name] of Behavior.validate: the children whose upper-case name is key
CountOf(obj, key) ==
    Cardinality({p \in ChildPlaces(obj) : obj.contents[p[1]][p[2]].name = key})

\* A max of None is written 0: the code tests "val[1] and count > val[1]".
AtMostOnce(names) == [k \in names |-> <<0, 1>>]
AnyNumber(names) == [k \in names |-> <<0, 0>>]
ExactlyOnce(names) == [k \in names |-> <<1, 1>>]

VCalendar2_0_knownChildren ==
    AtMostOnce({"CALSCALE", "METHOD", "VERSION"}) @@ ExactlyOnce({"PRODID"})
    @@ AnyNumber({"VTIMEZONE", "VEVENT", "VTODO", "VJOURNAL", "VFREEBUSY"})

VTimezone_knownChildren ==
    ExactlyOnce({"TZID"}) @@ AtMostOnce({"LAST-MODIFIED", "TZURL"})
    @@ AnyNumber({"STANDARD", "DAYLIGHT"})

DaylightOrStandard_knownChildren == ExactlyOnce({"DTSTART"})

VEvent_knownChildren ==
    AtMostOnce({"DTSTART", "CLASS", "CREATED", "DESCRIPTION", "GEO",
                "LAST-MODIFIED", "LOCATION", "ORGANIZER", "PRIORITY", "DTSTAMP",
                "SEQUENCE", "STATUS", "SUMMARY", "TRANSP", "UID", "URL",
                "RECURRENCE-ID", "DTEND", "DURATION"})
    @@ AnyNumber({"ATTACH", "ATTENDEE", "CATEGORIES", "COMMENT", "CONTACT",
                  "EXDATE", "EXRULE", "REQUEST-STATUS", "RELATED-TO",
                  "RESOURCES", "RDATE", "RRULE", "VALARM"})

VTodo_knownChildren ==
    AtMostOnce({"DTSTART", "CLASS", "COMPLETED", "CREATED", "DESCRIPTION",
                "GEO", "LAST-MODIFIED", "LOCATION", "ORGANIZER", "PERCENT",
                "PRIORITY", "DTSTAMP", "SEQUENCE", "STATUS", "SUMMARY", "UID",
                "URL", "RECURRENCE-ID", "DUE", "DURATION"})
    @@ AnyNumber({"ATTACH", "ATTENDEE", "CATEGORIES", "COMMENT", "CONTACT",
                  "EXDATE", "EXRULE", "REQUEST-STATUS", "RELATED-TO",
                  "RESOURCES", "RDATE", "RRULE", "VALARM"})

VJournal_knownChildren ==
    AtMostOnce({"DTSTART", "CLASS", "CREATED", "DESCRIPTION", "LAST-MODIFIED",
                "ORGANIZER", "DTSTAMP", "SEQUENCE", "STATUS", "SUMMARY", "UID",
                "URL", "RECURRENCE-ID"})
    @@ AnyNumber({"ATTACH", "ATTENDEE", "CATEGORIES", "COMMENT", "CONTACT",
                  "EXDATE", "EXRULE", "REQUEST-STATUS", "RELATED-TO", "RDATE",
                  "RRULE"})

VFreeBusy_knownChildren ==
    AtMostOnce({"DTSTART", "CONTACT", "DTEND", "DURATION", "ORGANIZER",
                "DTSTAMP", "UID", "URL"})
    @@ AnyNumber({"ATTENDEE", "COMMENT", "FREEBUSY", "REQUEST-STATUS"})

VAlarm_knownChildren ==
    ExactlyOnce({"ACTION", "TRIGGER"})
    @@ AtMostOnce({"DURATION", "REPEAT", "DESCRIPTION"})

\* The cardinality table of the behavior registered under a component name
knownChildren(name) ==
    CASE name = "VCALENDAR" -> VCalendar2_0_knownChildren
      [] name = "VTIMEZONE" -> VTimezone_knownChildren
      [] name \in {"STANDARD", "DAYLIGHT"} -> DaylightOrStandard_knownChildren
      [] name = "VEVENT" -> VEvent_knownChildren
      [] name = "VTODO" -> VTodo_knownChildren
      [] name = "VJOURNAL" -> VJournal_knownChildren
      [] name = "VFREEBUSY" -> VFreeBusy_knownChildren
      [] name = "VALARM" -> VAlarm_knownChildren
      [] OTHER -> <<>>

\* How a failed validation ends: a ValidateError when raiseException is set.
Failed(raiseException) == IF raiseException THEN "ValidateError" ELSE "False"

\* The cardinality loop of Behavior.validate over the behavior's table
CardinalityOk(obj, table) ==
    \A key \in DOMAIN table :
        /\ ~(CountOf(obj, key) < table[key][1])
        /\ ~(table[key][2] # 0 /\ CountOf(obj, key) > table[key][2])

\* validate of the behavior registered for obj.name: VEvent, VTodo, VTimezone
\* and VAlarm override Behavior.validate, the others inherit it.  A content
\* line validates.
RECURSIVE Validate(_, _)
\* Behavior.validate on a component: every child validates, then the table
BehaviorValidate(obj, raiseException) ==
    IF \E p \in ChildPlaces(obj) :
          Validate(obj.contents[p[1]][p[2]], raiseException) # "True"
      THEN Failed(raiseException)
    ELSE IF ~CardinalityOk(obj, knownChildren(obj.name))
      THEN Failed(raiseException)
    ELSE "True"

VTimezone_validate(obj, raiseException) == "True"

VEvent_validate(obj, raiseException) ==
    IF "DTEND" \in DOMAIN obj.contents /\ "DURATION" \in DOMAIN obj.contents
      THEN Failed(raiseException)
      ELSE BehaviorValidate(obj, raiseException)

VTodo_validate(obj, raiseException) ==
    IF "DUE" \in DOMAIN obj.contents /\ "DURATION" \in DOMAIN obj.contents
      THEN Failed(raiseException)
      ELSE BehaviorValidate(obj, raiseException)

VAlarm_validate(obj, raiseException) == "True"

Validate(obj, raiseException) ==
    CASE obj.name = "VTIMEZONE" -> VTimezone_validate(obj, raiseException)
      [] obj.name = "VEVENT" -> VEvent_validate(obj, raiseException)
      [] obj.name = "VTODO" -> VTodo_validate(obj, raiseException)
      [] obj.name = "VALARM" -> VAlarm_validate(obj, raiseException)
      [] obj.name \in ComponentNames -> BehaviorValidate(obj, raiseException)
      [] OTHER -> "True"

-----------------------------------------------------------------------------
(* The validation specification: a component is built child by child and   *)
(* then validated.                                                         *)

ChildNames ==
    {"DTSTART", "DTEND", "DUE", "DURATION", "TZID", "ACTION", "TRIGGER",
     "PRODID", "UID", "VALARM", "VEVENT", "STANDARD"}

GrandChildNames == {"DTSTART", "DTEND", "DURATION", "ACTION"}

NodeCount(obj) ==
    Cardinality(ChildPlaces(obj))
    + Cardinality({<<p, q>> \in ChildPlaces(obj) \X
                      ((UNION {DOMAIN obj.contents[k][i].contents :
                                 <<k, i>> \in ChildPlaces(obj)})
                       \X (1..MaxChildren + 1)) :
                    /\ q[1] \in DOMAIN obj.contents[p[1]][p[2]].contents
                    /\ q[2] <= Len(obj.contents[p[1]][p[2]].contents[q[1]])})

ValInit ==
    /\ tvOrig = <<>>
    /\ tvLine = [value |-> <<>>, encoded |-> FALSE]
    /\ tvOps = <<>>
    /\ tvIn = <<>>
    /\ tvStrict = FALSE
    /\ tvOut = NoCall
    /\ durSrc = "idle"
    /\ durDelta = 0
    /\ durSegs = <<>>
    /\ durText = <<>>
    /\ durOut = NoDurCall
    /\ vObj \in {[name |-> n, contents |-> <<>>] : n \in ComponentNames}
    /\ vRaise = FALSE
    /\ vResult = "none"
    /\ node = NoNode
    /\ nOrig = NoNode
    /\ tzidMap = InitialTzidMap
    /\ nLog = <<>>
    /\ rcComp = <<>>
    /\ rcOut = <<>>
    /\ tzComp = <<>>
    /\ tzArgs = <<>>
    /\ calObj = <<>>
    /\ calDone = FALSE
    /\ regProcs = <<>>
    /\ regWrites = <<>>
    /\ calCalls = <<>>
    /\ calExc = "none"

\* obj.add(child) for a content line or an empty component
AddChild ==
    /\ vResult = "none"
    /\ NodeCount(vObj) < MaxChildren
    /\ \E n \in ChildNames :
         vObj' = [vObj EXCEPT !.contents =
                     AddTo(@, [name |-> n, contents |-> <<>>])]
    /\ UNCHANGED <<vRaise, vResult>>
    /\ UNCHANGED <<textVars, durVars, nodeVars>>
    /\ UNCHANGED recurVars
    /\ UNCHANGED tzVars
    /\ UNCHANGED calVars
    /\ UNCHANGED regVars
    /\ UNCHANGED implVars

\* child.add(line) for a component child of obj
AddGrandChild ==
    /\ vResult = "none"
    /\ NodeCount(vObj) < MaxChildren
    /\ \E p \in ChildPlaces(vObj), n \in GrandChildNames :
         /\ vObj.contents[p[1]][p[2]].name \in ComponentNames
         /\ vObj' = [vObj EXCEPT !.contents[p[1]][p[2]].contents =
                        AddTo(@, [name |-> n, contents |-> <<>>])]
    /\ UNCHANGED <<vRaise, vResult>>
    /\ UNCHANGED <<textVars, durVars, nodeVars>>
    /\ UNCHANGED recurVars
    /\ UNCHANGED tzVars
    /\ UNCHANGED calVars
    /\ UNCHANGED regVars
    /\ UNCHANGED implVars

\* obj.validate(raiseException)
ValidateComponent ==
    /\ vResult = "none"
    /\ \E r \in BOOLEAN :
         /\ vRaise' = r
         /\ vResult' = Validate(vObj, r)
    /\ UNCHANGED vObj
    /\ UNCHANGED <<textVars, durVars, nodeVars>>
    /\ UNCHANGED recurVars
    /\ UNCHANGED tzVars
    /\ UNCHANGED calVars
    /\ UNCHANGED regVars
    /\ UNCHANGED implVars

-----------------------------------------------------------------------------
(* The node specification: a content line with a text value (or a          *)
(* component) is constructed, and toNative / fromNative are called on it.  *)

ValueBehaviors ==
    {"DateTime", "UtcDateTime", "DateOrDateTime", "MultiDate", "Duration", "Trigger"}

NodeTexts ==
    { <<"2", "0", "0", "5", "0", "1", "1", "9", "T", "0", "9", "0", "0", "0", "0">>,
      <<"2", "0", "0", "5", "0", "1", "1", "9", "T", "0", "9", "0", "0", "0", "0", "Z">>,
      <<"2", "0", "0", "5", "0", "1", "1", "9">>,
      <<>>,
      <<"2", "0", "0", "5", "0", "1", "1">>,
      <<"2", "0", "0", "5", "1", "3", "1", "9", "T", "0", "9", "0", "0", "0", "0">>,
      <<"P", "T", "1", "H">>,
      <<"-", "P", "1", "D">>,
      <<"P", "T", "1", "H", ",", "P", "T", "2", "H">>,
      <<"P", "1", "W", "1", "D", "T", "1", "H", "1", "M", "1", "S", ",", "P", "1", "W", "1", "D", "T", "1", "H", "1", "M", "1", "S">>,
      <<"2", "0", "0", "5", "0", "1", "1", "9", ",", "2", "0", "0", "5", "0", "1", "2", "0">>,
      <<"2", "0", "0", "5", "0", "1", "1", "9", "T", "0", "9", "0", "0", "0", "0", ",", "2", "0", "0", "5", "0", "1", "2", "0", "T", "1", "0", "0", "0", "0", "0", "Z">>,
      <<"2", "0", "0", "5", "0", "1", "1", "9", "T", "0", "9", "0", "0", "0", "0", "/", "P", "T", "1", "H">>,
      <<"2", "0", "0", "5", "0", "1", "1", "9", "T", "0", "9", "0", "0", "0", "0", "/", "2", "0", "0", "5", "0", "1", "1", "9", "T", "1", "0", "0", "0", "0", "0">>,
      <<"a", "b", "c">> }

ValueParams == {"DATE", "DATE-TIME", "PERIOD", "DURATION", "BINARY", "date"}

TzidParams == {"EST", "Mars"}

NodeParams ==
    {<<>>} \cup {("VALUE" :> <<v>>) : v \in ValueParams}
    \cup {("TZID" :> <<z>>) : z \in TzidParams}
    \cup {("VALUE" :> <<v>>) @@ ("TZID" :> <<z>>) : v \in ValueParams, z \in TzidParams}

Paris == [t |-> "tzinfo", tzid |-> "CET", offset |-> 1]

\* pickTzid names a time source that has no tzid of its own by its
\* standard-time tzname, so two sources can carry one identifier: this one
\* calls itself EST as Eastern does, and is an hour ahead of it.
EasternSummer == [t |-> "tzinfo", tzid |-> "EST", offset |-> -4]

\* The date-times a program puts into a node it builds itself
NativeDateTimes ==
    {DateTimeV(d[1], d[2], d[3], d[4], d[5], d[6], z) :
        d \in {<<2005, 1, 19, 9, 0, 0>>, <<2005, 12, 31, 23, 30, 59>>,
               <<2004, 3, 1, 0, 0, 1>>},
        z \in {NoneV, utc, Eastern, Paris, EasternSummer}}

NativeDates == {DateV(2005, 1, 19), DateV(2004, 2, 29)}

\* Nodes built by a program: the value is a typed object, isNative is true
\* and there are no parameters.
NativeNodes ==
    {[behavior |-> b, cls |-> "ContentLine", value |-> v, params |-> <<>>,
      isNative |-> TRUE] :
        b \in {"DateTime", "UtcDateTime", "DateOrDateTime"}, v \in NativeDateTimes}
    \cup {[behavior |-> "DateOrDateTime", cls |-> "ContentLine", value |-> v,
           params |-> <<>>, isNative |-> TRUE] : v \in NativeDates}

NewNodes ==
    {[behavior |-> b, cls |-> "ContentLine", value |-> Str(s), params |-> p,
      isNative |-> FALSE] : b \in ValueBehaviors, s \in NodeTexts, p \in NodeParams}
    \cup {[behavior |-> "Recurring", cls |-> "Component", value |-> NoneV,
           params |-> <<>>, isNative |-> FALSE]}
    \cup {[behavior |-> "VTimezone", cls |-> "Component", value |-> z,
           params |-> <<>>, isNative |-> FALSE] : z \in {Eastern, Paris}}
    \cup NativeNodes

NodeInit ==
    /\ tvOrig = <<>>
    /\ tvLine = [value |-> <<>>, encoded |-> FALSE]
    /\ tvOps = <<>>
    /\ tvIn = <<>>
    /\ tvStrict = FALSE
    /\ tvOut = NoCall
    /\ durSrc = "idle"
    /\ durDelta = 0
    /\ durSegs = <<>>
    /\ durText = <<>>
    /\ durOut = NoDurCall
    /\ vObj = NoComponent
    /\ vRaise = FALSE
    /\ vResult = "none"
    /\ nOrig \in NewNodes
    /\ node = nOrig
    /\ tzidMap = InitialTzidMap
    /\ nLog = <<>>
    /\ rcComp = <<>>
    /\ rcOut = <<>>
    /\ tzComp = <<>>
    /\ tzArgs = <<>>
    /\ calObj = <<>>
    /\ calDone = FALSE
    /\ regProcs = <<>>
    /\ regWrites = <<>>
    /\ calCalls = <<>>
    /\ calExc = "none"

\* node.behavior.transformToNative(node)
ToNative ==
    /\ Len(nLog) < MaxCalls
    /\ \E r \in {transformToNative(node, tzidMap)} :
         /\ node' = r.obj
         /\ tzidMap' = r.map
         /\ nLog' = Append(nLog, [op |-> "toNative", exc |-> r.exc])
    /\ UNCHANGED nOrig
    /\ UNCHANGED <<textVars, durVars, valVars>>
    /\ UNCHANGED recurVars
    /\ UNCHANGED tzVars
    /\ UNCHANGED calVars
    /\ UNCHANGED regVars
    /\ UNCHANGED implVars

\* node.behavior.transformFromNative(node)
FromNative ==
    /\ Len(nLog) < MaxCalls
    /\ \E r \in {transformFromNative(node, tzidMap)} :
         /\ node' = r.obj
         /\ tzidMap' = r.map
         /\ nLog' = Append(nLog, [op |-> "fromNative", exc |-> r.exc])
    /\ UNCHANGED nOrig
    /\ UNCHANGED <<textVars, durVars, valVars>>
    /\ UNCHANGED recurVars
    /\ UNCHANGED tzVars
    /\ UNCHANGED calVars
    /\ UNCHANGED regVars
    /\ UNCHANGED implVars

-----------------------------------------------------------------------------
(* Recurring components.  A component is [dtstart, exrule, rrule, rdate,   *)
(* exdate]: the value of its DTSTART (None when it has none) and its rule  *)
(* and date lines.  A rule line is [values, freq, occ]: the COUNT, UNTIL   *)
(* and BYMONTHDAY parts of its text, its FREQ, and occ, the instants its   *)
(* other parts generate from DTSTART on, in order, which is all the model  *)
(* keeps of dateutil's expansion.  A date line is the native list          *)
(* MultiDate made of it.                                                   *)

DATENAMES == {"rdate", "exdate"}
RULENAMES == {"exrule", "rrule"}
DATESANDRULES == <<"exrule", "rrule", "rdate", "exdate">>

\* datetime.datetime(dt.year, dt.month, dt.day)
Midnight(dt) == DateTimeV(dt.year, dt.month, dt.day, 0, 0, 0, NoneV)

\* a <= b for two date-times that both have a zone or both have none
NotAfter(a, b) == SecondsBetween(a, b) >= 0

\* dateutil.rrule.rrulestr(text, dtstart=dtstart): the rule object
rrulestr(line, dtstart) ==
    [count |-> IF "COUNT" \in DOMAIN line.values
                 THEN PyInt(IntOfText(line.values["COUNT"]).v) ELSE PyNone,
     until |-> IF "UNTIL" \notin DOMAIN line.values THEN NoneV
               ELSE IF Len(line.values["UNTIL"]) = 8
                 THEN Midnight(stringToDate(line.values["UNTIL"]).v)
               ELSE stringToDateTime(line.values["UNTIL"], NoneV).v,
     occ |-> line.occ,
     dtstart |-> IF dtstart.t = "date" THEN Midnight(dtstart) ELSE dtstart]

\* list(rule): what the rule generates, cut by its until and its count
Occurrences(rule) ==
    LET kept == SelectSeq(rule.occ,
                    LAMBDA x : rule.until = NoneV \/ NotAfter(x, rule.until))
    IN  IF rule.count = PyNone \/ rule.count.n >= Len(kept) THEN kept
        ELSE SubSeq(kept, 1, rule.count.n)

\* dateutil.rrule.rruleset()
NewRruleset == [exrule |-> <<>>, rrule |-> <<>>, rdate |-> <<>>, exdate |-> <<>>]

\* The body of getrruleset's loop for one rule line.  st is [set, added,
\* exc, none]: the set built so far, the local variable added ("unbound"
\* until it is first assigned), the exception raised, and whether None was
\* returned.
RuleStep(line, name, dtstart, addRDate, st) ==
    LET rule == rrulestr(line, dtstart)
        occ == Occurrences(rule)
        differs == Len(occ) > 0 /\ occ[1] # dtstart
        added == IF Len(occ) = 0 THEN "False"
                 ELSE IF differs THEN "True" ELSE st.added
        lessOne == [rule EXCEPT !.count = PyInt(@.n - 1)]
        set1 == [st.set EXCEPT ![name] = Append(@, rule)]
        set2 == [set1 EXCEPT !.rdate = IF differs THEN Append(@, dtstart) ELSE @]
        set3 == [set2 EXCEPT !.rrule = [@ EXCEPT ![Len(@)] = lessOne]]
    IN  IF dtstart = NoneV THEN [st EXCEPT !.none = TRUE]
        ELSE IF ~(name = "rrule" /\ addRDate) THEN [st EXCEPT !.set = set1]
        ELSE IF added = "unbound"
          THEN [st EXCEPT !.set = set2, !.exc = "UnboundLocalError"]
        ELSE IF added = "True" /\ rule.count # PyNone
          THEN [st EXCEPT !.set = set3, !.added = added]
        ELSE [st EXCEPT !.set = set2, !.added = added]

\* The body of getrruleset's loop for one RDATE or EXDATE line
DateStep(line, name, st) ==
    IF Len(line.items) = 0 THEN [st EXCEPT !.exc = "IndexError"]
    ELSE IF line.items[1].t = "datetime"
      THEN [st EXCEPT !.set = [@ EXCEPT ![name] = @ \o line.items]]
    ELSE st

\* for line in self.contents.get(name, ())
RECURSIVE LinesLoop(_, _, _, _, _)
LinesLoop(lines, name, dtstart, addRDate, st) ==
    IF Len(lines) = 0 \/ st.exc # "none" \/ st.none THEN st
    ELSE LinesLoop(Tail(lines), name, dtstart, addRDate,
                   IF name \in DATENAMES THEN DateStep(Head(lines), name, st)
                   ELSE RuleStep(Head(lines), name, dtstart, addRDate, st))

\* for name in DATESANDRULES
RECURSIVE NamesLoop(_, _, _, _)
NamesLoop(comp, k, addRDate, st) ==
    IF k > Len(DATESANDRULES) THEN st
    ELSE NamesLoop(comp, k + 1, addRDate,
                   LinesLoop(comp[DATESANDRULES[k]], DATESANDRULES[k],
                             comp.dtstart, addRDate, st))

\* RecurringComponent.getrruleset: [exc, set], set being None when the
\* component has no rule or date line, or a rule but no DTSTART.
getrruleset(comp, addRDate) ==
    LET st == NamesLoop(comp, 1, addRDate,
                  [set |-> NewRruleset, added |-> "unbound", exc |-> "none",
                   none |-> FALSE])
        empty == \A k \in 1..Len(DATESANDRULES) : comp[DATESANDRULES[k]] = <<>>
    IN  [exc |-> st.exc,
         set |-> IF st.exc # "none" \/ st.none \/ empty THEN NoneV ELSE st.set]

\* setlist.remove(x): the list without the first x
RemoveFirst(seq, x) ==
    LET k == CHOOSE i \in 1..Len(seq) : seq[i] = x /\ \A j \in 1..(i - 1) : seq[j] # x
    IN  SubSeq(seq, 1, k - 1) \o SubSeq(seq, k + 1, Len(seq))

FREQUENCIES == <<"YEARLY", "MONTHLY", "WEEKLY", "DAILY", "HOURLY", "MINUTELY",
                 "SECONDLY">>

\* dateutil.rrule.MONTHLY, among YEARLY = 0, MONTHLY, WEEKLY, DAILY = 3
MONTHLY == 1

\* BYMONTHDAY written whenever the rule has month days
ByMonthDay_Always(rule) ==
    IF Len(rule.bymonthday) > 0
      THEN ("BYMONTHDAY" :> [i \in 1..Len(rule.bymonthday) |->
                                NatToStr(rule.bymonthday[i])])
      ELSE <<>>

\* The BYMONTHDAY part of a rule's line: left out when dateutil generated
\* it from DTSTART (rule._bymonthday is a tuple, empty when not used)
ByMonthDay(rule) ==
    IF Len(rule.bymonthday) > 0
       /\ ~(/\ rule.freq <= MONTHLY
            /\ Len(rule.bymonthday) = 1
            /\ rule.bymonthday[1] = rule.dtstart.day)
      THEN ("BYMONTHDAY" :> [i \in 1..Len(rule.bymonthday) |->
                                NatToStr(rule.bymonthday[i])])
      ELSE <<>>

\* EmitRule with the until written in its own zone
EmitRule_KeepZone(rule, isDate) ==
    [values |->
        (IF rule.count # PyNone THEN ("COUNT" :> NatToStr(rule.count.n))
         ELSE IF rule.until # NoneV
           THEN ("UNTIL" :> IF isDate THEN dateToString(rule.until)
                            ELSE dateTimeToString(rule.until, TRUE))
         ELSE <<>>) @@ ByMonthDay(rule),
     freq |-> FREQUENCIES[rule.freq + 1],
     occ |-> rule.occ]

\* The line setrruleset writes for one rule: FREQ, then COUNT or else
\* UNTIL, and BYMONTHDAY, among the parts of its text (the parts kept in
\* occ are not spelled out).
EmitRule(rule, isDate) ==
    [values |->
        (IF rule.count # PyNone THEN ("COUNT" :> NatToStr(rule.count.n))
         ELSE IF rule.until # NoneV
           THEN ("UNTIL" :> IF isDate THEN dateToString(rule.until)
                            ELSE dateTimeToString(rule.until, FALSE))
         ELSE <<>>) @@ ByMonthDay(rule),
     freq |-> FREQUENCIES[rule.freq + 1],
     occ |-> rule.occ]

\* The list setrruleset writes for the rdate or exdate list of the set
EmitDates(name, setlist, dtstart, isDate) ==
    LET kept == IF name = "rdate" /\ \E i \in 1..Len(setlist) : setlist[i] = dtstart
                  THEN RemoveFirst(setlist, dtstart) ELSE setlist
    IN  IF isDate
          THEN [i \in 1..Len(kept) |-> DateV(kept[i].year, kept[i].month, kept[i].day)]
          ELSE kept

\* RecurringComponent.setrruleset: [exc, comp].  "hasattr(self.contents,
\* name)" is false for a dict, so the lines the component has are kept.
setrruleset(comp, rruleset) ==
    LET isDate == comp.dtstart.t = "date"
        dtstart == IF isDate THEN Midnight(comp.dtstart) ELSE comp.dtstart
        dates(name) == EmitDates(name, rruleset[name], dtstart, isDate)
        rules(name) == [i \in 1..Len(rruleset[name]) |->
                           EmitRule(rruleset[name][i], isDate)]
    IN  IF comp.dtstart = NoneV THEN [exc |-> "AttributeError", comp |-> comp]
        ELSE [exc |-> "none",
              comp |-> [comp EXCEPT
                 !.exrule = @ \o rules("exrule"),
                 !.rrule = @ \o rules("rrule"),
                 !.rdate = IF dates("rdate") = <<>> THEN @
                           ELSE Append(@, ListV(dates("rdate"))),
                 !.exdate = IF dates("exdate") = <<>> THEN @
                            ELSE Append(@, ListV(dates("exdate")))]]

-----------------------------------------------------------------------------
(* TimezoneComponent.settzinfo: inferring VTIMEZONE rules from a tzinfo *)

WEEKDAYS == <<<<"M", "O">>, <<"T", "U">>, <<"W", "E">>, <<"T", "H">>,
              <<"F", "R">>, <<"S", "A">>, <<"S", "U">>>>

\* date.weekday(): Monday is 0
Weekday(y, m, d) == (Ordinal(y, m, d) + 6) % 7

\* The day of the month of the n-th (n > 0) or n-th from last (n < 0)
\* given weekday; outside 1..DaysInMonth when the month has no such day.
NthWeekday(y, m, wd, n) ==
    IF n > 0
      THEN 1 + ((wd - Weekday(y, m, 1) + 7) % 7) + 7 * (n - 1)
      ELSE DaysInMonth(y, m)
           - ((Weekday(y, m, DaysInMonth(y, m)) - wd + 7) % 7) - 7 * (-n - 1)

\* dt is at or after the n-th weekday of the month at the hour, this year
AtOrAfter(dt, at) ==
    \/ dt.month > at.month
    \/ /\ dt.month = at.month
       /\ \/ dt.day > NthWeekday(dt.year, at.month, at.weekday, at.n)
          \/ /\ dt.day = NthWeekday(dt.year, at.month, at.weekday, at.n)
             /\ dt.hour >= at.hour

\* tzinfo.dst(dt) in hours, for a tzinfo that has one more hour from
\* dstStart to dstEnd in the years first..last
dst(tzinfo, dt) ==
    IF /\ dt.year >= tzinfo.first /\ dt.year <= tzinfo.last
       /\ AtOrAfter(dt, tzinfo.dstStart) /\ ~AtOrAfter(dt, tzinfo.dstEnd)
      THEN 1 ELSE 0

\* tzinfo.utcoffset(dt)
utcoffset(tzinfo, dt) == TimedeltaV((tzinfo.offset + dst(tzinfo, dt)) * 3600)

\* tzinfo.tzname(dt)
tzname(tzinfo, dt) ==
    IF dst(tzinfo, dt) = 0 THEN tzinfo.names[1] ELSE tzinfo.names[2]

\* dt + datetime.timedelta(hours=h), for less than a day
AddHours(dt, h) ==
    IF dt.hour + h < 0 THEN [PrevDay(dt) EXCEPT !.hour = dt.hour + h + 24]
    ELSE IF dt.hour + h > 23 THEN [NextDay(dt) EXCEPT !.hour = dt.hour + h - 24]
    ELSE [dt EXCEPT !.hour = dt.hour + h]

\* str(n) for an int
IntToStr(n) == IF n < 0 THEN <<"-">> \o NatToStr(-n) ELSE NatToStr(n)

deltaToOffset(delta) ==
    (IF Abs(delta.secs) = delta.secs THEN <<"+">> ELSE <<"-">>)
    \o numToDigits(TdSeconds(Abs(delta.secs)) \div 3600, 2) \o <<"0", "0">>

\* tests[transitionTo](dt)
InEffect(tzinfo, transitionTo, dt) ==
    IF transitionTo = "daylight" THEN dst(tzinfo, dt) # 0
    ELSE dst(tzinfo, dt) = 0

\* The last date not matching the test before the first that matches after
\* it, or None if all matched
RECURSIVE firstTransition(_, _, _, _)
firstTransition(iterDates, tzinfo, transitionTo, success) ==
    IF iterDates = <<>> THEN success
    ELSE IF ~InEffect(tzinfo, transitionTo, Head(iterDates))
      THEN firstTransition(Tail(iterDates), tzinfo, transitionTo, Head(iterDates))
    ELSE IF success # NoneV THEN success
    ELSE firstTransition(Tail(iterDates), tzinfo, transitionTo, success)

\* generateDates(year, month=None, day=None), 0 standing for None
generateDates(year, month, day) ==
    IF month = 0
      THEN [m \in 1..12 |-> DateTimeV(year, m, 1, 0, 0, 0, NoneV)]
    ELSE IF day = 0
      THEN [d \in 1..DaysInMonth(year, month) |->
               DateTimeV(year, month, d, 0, 0, 0, NoneV)]
    ELSE [h \in 1..24 |-> DateTimeV(year, month, day, h - 1, 0, 0, NoneV)]

\* How many weeks from the end of the month dt is, starting from 1
fromLastWeek(dt) == (DaysInMonth(dt.year, dt.month) - dt.day) \div 7 + 1

\* rule[0] of the yearly rule on the n-th weekday of the month
RECURSIVE getTransitionOccurrence(_, _, _, _, _)
getTransitionOccurrence(year, month, dayofweek, n, hour) ==
    IF hour = PyNone THEN DateTimeV(year, 1, 1, 0, 0, 0, NoneV)
    ELSE IF NthWeekday(year, month, dayofweek.n, n.n) \in 1..DaysInMonth(year, month)
      THEN DateTimeV(year, month, NthWeekday(year, month, dayofweek.n, n.n),
                     hour.n, 0, 0, NoneV)
    ELSE getTransitionOccurrence(year + 1, month, dayofweek, n, hour)

\* The rule for a year in which transitionTo is in effect throughout
WholeYearRule(tzinfo, yearStart) ==
    [end |-> PyNone, start |-> yearStart, month |-> 1, weekday |-> PyNone,
     hour |-> PyNone, plus |-> PyNone, minus |-> PyNone,
     name |-> tzname(tzinfo, yearStart),
     offset |-> utcoffset(tzinfo, yearStart),
     offsetfrom |-> utcoffset(tzinfo, yearStart)]

\* The rule for a transition found at the hour after uncorrected
TransitionRule(tzinfo, corrected, uncorrected) ==
    [end |-> PyNone, start |-> corrected, month |-> corrected.month,
     weekday |-> PyInt(Weekday(corrected.year, corrected.month, corrected.day)),
     hour |-> PyInt(corrected.hour),
     plus |-> PyInt((corrected.day - 1) \div 7 + 1),
     minus |-> PyInt(fromLastWeek(corrected)),
     name |-> tzname(tzinfo, corrected),
     offset |-> utcoffset(tzinfo, corrected),
     offsetfrom |-> utcoffset(tzinfo, uncorrected)]

\* The transition of the month: the day, then the hour, then corrected
FoundTransition(tzinfo, year, transitionTo, month) ==
    \* uncorrected
    firstTransition(
        generateDates(year, month,
            firstTransition(generateDates(year, month, 0), tzinfo,
                            transitionTo, NoneV).day),
        tzinfo, transitionTo, NoneV)

\* Retire with the rule closed in the year of the step
Retire_SameYear(st, transitionTo, year, rule) ==
    [working |-> [st.working EXCEPT ![transitionTo] = rule],
     completed |-> [st.completed EXCEPT ![transitionTo] =
                      Append(@, [st.working[transitionTo] EXCEPT
                                    !.end = PyInt(year)])]]

\* oldrule['end'] = year - 1; completed.append(oldrule); working = rule
Retire(st, transitionTo, year, rule) ==
    [working |-> [st.working EXCEPT ![transitionTo] = rule],
     completed |-> [st.completed EXCEPT ![transitionTo] =
                      Append(@, [st.working[transitionTo] EXCEPT
                                    !.end = PyInt(year - 1)])]]

\* MatchRule that leaves the week counts of the rule in effect as they were
MatchRule_KeepCounts(st, transitionTo, year, rule) ==
    LET oldrule == st.working[transitionTo]
        plusMatch == rule.plus = oldrule.plus
        minusMatch == rule.minus = oldrule.minus
    IN  IF oldrule = NoneV THEN [st EXCEPT !.working[transitionTo] = rule]
        ELSE IF /\ plusMatch \/ minusMatch
                /\ rule.month = oldrule.month /\ rule.weekday = oldrule.weekday
                /\ rule.hour = oldrule.hour /\ rule.offset = oldrule.offset
          THEN st
        ELSE Retire(st, transitionTo, year, rule)

\* The comparison of the year's rule with the rule in effect
MatchRule(st, transitionTo, year, rule) ==
    LET oldrule == st.working[transitionTo]
        plusMatch == rule.plus = oldrule.plus
        minusMatch == rule.minus = oldrule.minus
    IN  IF oldrule = NoneV THEN [st EXCEPT !.working[transitionTo] = rule]
        ELSE IF /\ plusMatch \/ minusMatch
                /\ rule.month = oldrule.month /\ rule.weekday = oldrule.weekday
                /\ rule.hour = oldrule.hour /\ rule.offset = oldrule.offset
          THEN [st EXCEPT !.working[transitionTo] =
                   [oldrule EXCEPT
                      !.plus = IF plusMatch THEN @ ELSE PyNone,
                      !.minus = IF minusMatch THEN @ ELSE PyNone]]
        ELSE Retire(st, transitionTo, year, rule)

\* The body of the loops over year and transitionTo, monthDt being the
\* result of firstTransition over the months of the year
YearStep(tzinfo, year, transitionTo, st, monthDt) ==
    IF monthDt = NoneV
      THEN IF st.working[transitionTo] = NoneV
             THEN [st EXCEPT !.working[transitionTo] =
                      WholeYearRule(tzinfo, DateTimeV(year, 1, 1, 0, 0, 0, NoneV))]
           ELSE IF st.working[transitionTo].offset
                     # utcoffset(tzinfo, DateTimeV(year, 1, 1, 0, 0, 0, NoneV))
             THEN Retire(st, transitionTo, year,
                      WholeYearRule(tzinfo, DateTimeV(year, 1, 1, 0, 0, 0, NoneV)))
           ELSE st
    ELSE IF monthDt.month = 12
      THEN IF st.working[transitionTo] # NoneV
             THEN Retire(st, transitionTo, year, NoneV)
           ELSE st
    ELSE MatchRule(st, transitionTo, year,
             TransitionRule(tzinfo,
                 AddHours(FoundTransition(tzinfo, year, transitionTo, monthDt.month),
                          IF transitionTo = "standard" THEN 2 ELSE 1),
                 FoundTransition(tzinfo, year, transitionTo, monthDt.month)))

\* for transitionTo in 'daylight', 'standard': the year's two steps
BothSteps(tzinfo, year, st) ==
    CHOOSE r \in {YearStep(tzinfo, year, "standard", d,
                      firstTransition(generateDates(year, 0, 0), tzinfo,
                                      "standard", NoneV)) :
                  d \in {YearStep(tzinfo, year, "daylight", st,
                             firstTransition(generateDates(year, 0, 0), tzinfo,
                                             "daylight", NoneV))}} : TRUE

\* for year in xrange(start, end + 1)
RECURSIVE YearsLoop(_, _, _, _)
YearsLoop(tzinfo, year, end, st) ==
    IF year > end THEN st
    ELSE CHOOSE r \in {YearsLoop(tzinfo, year + 1, end, s) :
                          s \in {BothSteps(tzinfo, year, st)}} : TRUE

\* num of a rule: plus, else minus negated, else None
RuleNum(rule) ==
    IF rule.plus # PyNone THEN rule.plus
    ELSE IF rule.minus # PyNone THEN PyInt(-1 * rule.minus.n)
    ELSE PyNone

\* The DAYLIGHT or STANDARD component written for one rule; rrule holds
\* the three parts put into "FREQ=YEARLY%s;BYMONTH=%s%s", byday after
\* ";BYDAY=" and until after ";UNTIL=", empty when the part is left out.
RuleComponent(rule) ==
    [dtstart |-> rule.start,
     tzname |-> rule.name,
     tzoffsetto |-> deltaToOffset(rule.offset),
     tzoffsetfrom |-> deltaToOffset(rule.offsetfrom),
     rrule |->
       [byday |-> IF RuleNum(rule) # PyNone
                    THEN IntToStr(RuleNum(rule).n) \o WEEKDAYS[rule.weekday.n + 1]
                    ELSE <<>>,
        bymonth |-> IntToStr(rule.month),
        until |-> IF rule.end # PyNone
                    THEN dateTimeToString(
                           AddHours([getTransitionOccurrence(rule.end.n, rule.month,
                                        rule.weekday, RuleNum(rule), rule.hour)
                                     EXCEPT !.tzinfo = utc],
                                    -(rule.offsetfrom.secs \div 3600)),
                           TRUE)
                    ELSE <<>>]]

\* TimezoneComponent.settzinfo(tzinfo, start, end): the component's tzid,
\* daylight and standard lists afterwards
settzinfo(tzinfo, start, end) ==
    CHOOSE r \in
        {[tzid |-> pickTzid(tzinfo),
          daylight |->
             [i \in 1..Len(done.daylight) |-> RuleComponent(done.daylight[i])],
          standard |->
             [i \in 1..Len(done.standard) |-> RuleComponent(done.standard[i])]] :
            done \in
               {[k \in {"daylight", "standard"} |->
                    IF st.working[k] # NoneV
                      THEN Append(st.completed[k], st.working[k])
                      ELSE st.completed[k]] :
                   st \in {YearsLoop(tzinfo, start, end,
                              [working |-> [daylight |-> NoneV, standard |-> NoneV],
                               completed |-> [daylight |-> <<>>, standard |-> <<>>]])}}} :
        TRUE

-----------------------------------------------------------------------------
(* The timezone specification: settzinfo is called with a time source and *)
(* a window of years.                                                      *)

DefaultStart == 2000

LastSunday(month, hour) == [month |-> month, weekday |-> 6, n |-> -1, hour |-> hour]

\* Time sources: summer time from the last Sunday of March 01:00 to the
\* last Sunday of October 01:00 in every year, until 2002, or since 2003;
\* from the first Sunday of April 02:00; and none at all.
TimeSources ==
    {[t |-> "tzinfo", tzid |-> "Europe", offset |-> 1, names |-> <<"CET", "CEST">>,
      dstStart |-> LastSunday(3, 1), dstEnd |-> LastSunday(10, 1),
      first |-> y[1], last |-> y[2]] :
        y \in {<<1, 9999>>, <<1, 2002>>, <<2003, 9999>>}}
    \cup
    {[t |-> "tzinfo", tzid |-> "US-Eastern", offset |-> -5, names |-> <<"EST", "EDT">>,
      dstStart |-> [month |-> 4, weekday |-> 6, n |-> 1, hour |-> 2],
      dstEnd |-> LastSunday(10, 1), first |-> y[1], last |-> y[2]] :
        y \in {<<1, 9999>>, <<9999, 1>>}}

EuropeanSource == CHOOSE z \in TimeSources : z.tzid = "Europe" /\ z.first = 1 /\ z.last = 9999

TzInit ==
    /\ tvOrig = <<>>
    /\ tvLine = [value |-> <<>>, encoded |-> FALSE]
    /\ tvOps = <<>>
    /\ tvIn = <<>>
    /\ tvStrict = FALSE
    /\ tvOut = NoCall
    /\ durSrc = "idle"
    /\ durDelta = 0
    /\ durSegs = <<>>
    /\ durText = <<>>
    /\ durOut = NoDurCall
    /\ vObj = NoComponent
    /\ vRaise = FALSE
    /\ vResult = "none"
    /\ nOrig = NoNode
    /\ node = NoNode
    /\ tzidMap = InitialTzidMap
    /\ nLog = <<>>
    /\ rcComp = <<>>
    /\ rcOut = <<>>
    /\ tzComp = [tzid |-> <<>>, daylight |-> <<>>, standard |-> <<>>]
    /\ tzArgs = [tzinfo |-> NoneV, start |-> 0, end |-> 0]
    /\ calObj = <<>>
    /\ calDone = FALSE
    /\ regProcs = <<>>
    /\ regWrites = <<>>
    /\ calCalls = <<>>
    /\ calExc = "none"

\* component.settzinfo(tzinfo, start, end), on a component that has no
\* tzinfo yet (a later call starts again from empty lists)
SetTzinfo ==
    /\ tzArgs.tzinfo = NoneV
    /\ \E tzinfo \in TimeSources :
         \E start \in DefaultStart..(DefaultStart + MaxYears - 1) :
            \E end \in start..(DefaultStart + MaxYears - 1) :
               /\ tzComp' = settzinfo(tzinfo, start, end)
               /\ tzArgs' = [tzinfo |-> tzinfo, start |-> start, end |-> end]
    /\ UNCHANGED <<textVars, durVars, valVars, nodeVars, recurVars>>
    /\ UNCHANGED calVars
    /\ UNCHANGED regVars
    /\ UNCHANGED implVars

-----------------------------------------------------------------------------
(* VCalendar2_0.generateImplicitParameters *)

PRODID == "-//PYVOBJECT//NONSGML Version 1//EN"
versionString == "2.0"
DefaultEnd == 2030

\* ContentLine(name, params, value); params maps a name to its list
ContentLine(name, params, value) ==
    [name |-> name, line |-> TRUE, params |-> params, value |-> value]

\* A component; interned tells whether its name is the very string object
\* of the literal 'VTIMEZONE' in the source, which "is not" compares with
Component(name, interned, children) ==
    [name |-> name, line |-> FALSE, interned |-> interned, children |-> children]

\* obj.getChildren(): a content line has none
getChildren(obj) == IF obj.line THEN <<>> ELSE obj.children

\* getattr(obj, name, []) of a component: its children of that name
ChildrenNamed(obj, name) ==
    SelectSeq(obj.children, LAMBDA c : c.name = name)

\* tzinfo = getattr(value, 'tzinfo', None); tzid = pickTzid(tzinfo);
\* registerTzinfo(tzinfo); if tzid: table[tzid] = 1
ValueTzid(value, st) ==
    LET tzinfo == IF value.t = "datetime" THEN value.tzinfo ELSE NoneV
    IN  [table |-> IF pickTzid(tzinfo) # NoTzid /\ pickTzid(tzinfo) # ""
                     THEN st.table \cup {pickTzid(tzinfo)} ELSE st.table,
         map |-> registerTzinfo(st.map, tzinfo)]

\* findTzids on a content line.  For a list the loop body looks at
\* obj.value, the list, once per item.
LineTzids(obj, st) ==
    IF "TZID" \in DOMAIN obj.params /\ obj.params["TZID"] # <<>>
      THEN [st EXCEPT !.table = @ \cup {obj.params["TZID"][1]}]
    ELSE IF obj.value.t = "list"
      THEN IF obj.value.items = <<>> THEN st ELSE ValueTzid(obj.value, st)
    ELSE ValueTzid(obj.value, st)

\* generateImplicitParameters.findTzids: [table, map] afterwards
RECURSIVE findTzids(_, _)
RECURSIVE FindInChildren(_, _, _)
FindInChildren(children, descend, st) ==
    IF children = <<>> \/ ~descend THEN st
    ELSE FindInChildren(Tail(children), descend, findTzids(Head(children), st))

findTzids(obj, st) ==
    FindInChildren(getChildren(obj),
                   obj.line \/ obj.name # "VTIMEZONE" \/ ~obj.interned,
                   IF obj.line THEN LineTzids(obj, st) ELSE st)

\* A registered tzinfo as a time source that never has summer time
FixedSource(tzinfo) ==
    [t |-> "tzinfo", tzid |-> tzinfo.tzid, offset |-> tzinfo.offset,
     names |-> <<tzinfo.tzid, tzinfo.tzid>>,
     dstStart |-> LastSunday(3, 1), dstEnd |-> LastSunday(10, 1),
     first |-> 9999, last |-> 1]

\* TimezoneComponent(tzinfo=tzinfo): settzinfo fills it unless tzinfo is None
TimezoneComponent(tzinfo) ==
    IF tzinfo = NoneV THEN Component("VTIMEZONE", TRUE, <<>>)
    ELSE CHOOSE c \in
            {Component("VTIMEZONE", TRUE,
                <<ContentLine("TZID", <<>>, Str(tz.tzid))>>
                \o [i \in 1..Len(tz.daylight) |->
                      Component("DAYLIGHT", FALSE, <<tz.daylight[i]>>)]
                \o [i \in 1..Len(tz.standard) |->
                      Component("STANDARD", FALSE, <<tz.standard[i]>>)]) :
             tz \in {settzinfo(FixedSource(tzinfo), DefaultStart, DefaultEnd)}} :
            TRUE

\* [x.tzid[0].value for x in getattr(obj, 'vtimezone', [])]
oldtzids(obj) ==
    {c.children[1].value.s : c \in {x \in {obj.children[i] : i \in 1..Len(obj.children)} :
                                       x.name = "VTIMEZONE"}}

\* for tzid in keys: if tzid in oldtzids or tzid == 'UTC': continue;
\* obj.add(TimezoneComponent(tzinfo=getTzid(tzid)))
RECURSIVE AddTimezones(_, _, _, _)
AddTimezones(obj, keys, old, map) ==
    IF keys = <<>> THEN obj
    ELSE AddTimezones(
            IF Head(keys) \in old \/ Head(keys) = "UTC" THEN obj
            ELSE [obj EXCEPT !.children =
                     Append(@, TimezoneComponent(getTzid(map, Head(keys))))],
            Tail(keys), old, map)

\* obj.add(ContentLine(name, [], value)) if the component has no such child
WithLine(obj, name, value) ==
    IF Len(ChildrenNamed(obj, name)) = 0
      THEN [obj EXCEPT !.children = Append(@, ContentLine(name, <<>>, Str(value)))]
      ELSE obj

\* The orders tzidsUsed.keys() can list the table in
KeyOrders(table) ==
    {f \in [1..Cardinality(table) -> table] :
        \A i, j \in 1..Cardinality(table) : f[i] = f[j] => i = j}

\* VCalendar2_0.generateImplicitParameters: the calendar afterwards, given
\* what findTzids returned and the order of the keys
VCalendar2_0_generateImplicitParameters(obj, found, keys) ==
    AddTimezones(WithLine(WithLine(obj, "PRODID", PRODID), "VERSION", versionString),
                 keys, oldtzids(obj), found.map)

\* x.tzid raises AttributeError for a VTIMEZONE child without a TZID line
LacksTzid(obj) ==
    \E i \in 1..Len(obj.children) :
        /\ obj.children[i].name = "VTIMEZONE"
        /\ ~obj.children[i].line
        /\ ChildrenNamed(obj.children[i], "TZID") = <<>>

\* VCalendar2_0.generateImplicitParameters with what it raises: [exc, obj]
CalendarImplied(obj, found, keys) ==
    IF LacksTzid(obj)
      THEN [exc |-> "AttributeError",
            obj |-> WithLine(WithLine(obj, "PRODID", PRODID), "VERSION", versionString)]
      ELSE [exc |-> "none",
            obj |-> VCalendar2_0_generateImplicitParameters(obj, found, keys)]

\* RecurringBehavior.generateImplicitParameters: a UID unless there is one
RecurringBehavior_generateImplicitParameters(obj, uid) ==
    IF Len(ChildrenNamed(obj, "UID")) = 0
      THEN [obj EXCEPT !.children = Append(@, ContentLine("UID", <<>>, Str(uid)))]
      ELSE obj

\* obj.add(name).value = value when obj has no child of that name
WithDefault(obj, name, value) ==
    IF ChildrenNamed(obj, name) = <<>>
      THEN [obj EXCEPT !.children = Append(@, ContentLine(name, <<>>, value))]
      ELSE obj

\* VAlarm.generateImplicitParameters: default ACTION and TRIGGER
VAlarm_generateImplicitParameters(obj) ==
    WithDefault(WithDefault(obj, "ACTION", Str("AUDIO")), "TRIGGER", TimedeltaV(0))

\* generateImplicitParameters of the behavior of an event or an alarm
ChildImplied(obj, uid) ==
    IF obj.name = "VALARM" THEN VAlarm_generateImplicitParameters(obj)
    ELSE RecurringBehavior_generateImplicitParameters(obj, uid)

-----------------------------------------------------------------------------
(* The calendar specification: a calendar is given children, then         *)
(* generateImplicitParameters is called on it.                             *)

\* The lines a program puts into an event
EventLines ==
    {ContentLine("SUMMARY", <<>>, Str("x"))}
    \cup {ContentLine("DTSTART", ("TZID" :> <<z>>), Str("20050119T090000")) :
             z \in {"EST", "CET", "UTC"}}
    \cup {ContentLine("DTSTART", <<>>, DateTimeV(2005, 1, 19, 9, 0, 0, z)) :
             z \in {NoneV, utc, Eastern, Paris}}
    \cup {ContentLine("RDATE", <<>>, ListV(<<DateTimeV(2005, 1, 19, 9, 0, 0, z)>>)) :
             z \in {Eastern, Paris}}

\* The children a program puts into a calendar: lines, events, and a parsed
\* VTIMEZONE whose TZID line is its first child
CalendarChildren ==
    {ContentLine("PRODID", <<>>, Str("-//X//EN")),
     ContentLine("VERSION", <<>>, Str("2.0"))}
    \cup {Component("VEVENT", FALSE, <<l>>) : l \in EventLines}
    \cup {Component("VEVENT", FALSE, <<Component("VALARM", FALSE, a)>>) :
             a \in {<<>>, <<ContentLine("TRIGGER", <<>>, TimedeltaV(-900))>>}}
    \cup {Component("VEVENT", FALSE, <<ContentLine("UID", <<>>, Str("given"))>>)}
    \cup {Component("VTIMEZONE", i,
             <<ContentLine("TZID", <<>>, Str("EST")),
               ContentLine("X-LIC-LOCATION", ("TZID" :> <<"CET">>), Str("x"))>>) :
             i \in BOOLEAN}

CalInit ==
    /\ tvOrig = <<>>
    /\ tvLine = [value |-> <<>>, encoded |-> FALSE]
    /\ tvOps = <<>>
    /\ tvIn = <<>>
    /\ tvStrict = FALSE
    /\ tvOut = NoCall
    /\ durSrc = "idle"
    /\ durDelta = 0
    /\ durSegs = <<>>
    /\ durText = <<>>
    /\ durOut = NoDurCall
    /\ vObj = NoComponent
    /\ vRaise = FALSE
    /\ vResult = "none"
    /\ nOrig = NoNode
    /\ node = NoNode
    /\ tzidMap = InitialTzidMap
    /\ nLog = <<>>
    /\ rcComp = <<>>
    /\ rcOut = <<>>
    /\ tzComp = <<>>
    /\ tzArgs = <<>>
    /\ calObj = Component("VCALENDAR", FALSE, <<>>)
    /\ calDone = FALSE
    /\ regProcs = <<>>
    /\ regWrites = <<>>
    /\ calCalls = <<>>
    /\ calExc = "none"

\* calendar.add(child)
AddToCalendar ==
    /\ ~calDone
    /\ Len(calObj.children) < MaxCalChildren
    /\ \E child \in CalendarChildren :
          calObj' = [calObj EXCEPT !.children = Append(@, child)]
    /\ UNCHANGED <<calDone, tzidMap, nOrig, node, nLog>>
    /\ UNCHANGED <<textVars, durVars, valVars, recurVars, tzVars>>
    /\ UNCHANGED regVars
    /\ UNCHANGED implVars

\* VCalendar2_0.generateImplicitParameters(calendar), once before
\* serialization
GenerateImplicitParameters ==
    /\ ~calDone
    /\ Len(calCalls) < MaxImplied
    /\ \E found \in {findTzids(calObj, [table |-> {}, map |-> tzidMap])} :
          /\ \E keys \in KeyOrders(found.table) :
                calObj' = VCalendar2_0_generateImplicitParameters(calObj, found, keys)
          /\ tzidMap' = found.map
    /\ calDone' = TRUE
    /\ calCalls' = Append(calCalls, <<>>)
    /\ calExc' = "none"
    /\ UNCHANGED <<nOrig, node, nLog>>
    /\ UNCHANGED <<textVars, durVars, valVars, recurVars, tzVars>>
    /\ UNCHANGED regVars

\* VCalendar2_0.generateImplicitParameters(calendar), another time
GenerateAgain ==
    /\ calDone
    /\ Len(calCalls) < MaxImplied
    /\ \E found \in {findTzids(calObj, [table |-> {}, map |-> tzidMap])} :
          /\ \E keys \in KeyOrders(found.table) :
                \E r \in {CalendarImplied(calObj, found, keys)} :
                   /\ calObj' = r.obj
                   /\ calExc' = r.exc
          /\ tzidMap' = found.map
    /\ calCalls' = Append(calCalls, <<>>)
    /\ UNCHANGED <<calDone, nOrig, node, nLog>>
    /\ UNCHANGED <<textVars, durVars, valVars, recurVars, tzVars>>
    /\ UNCHANGED regVars

\* The events of the calendar and the alarms of its events, as paths
ComponentPaths ==
    LET events == {k \in 1..Len(calObj.children) : calObj.children[k].name = "VEVENT"}
    IN  {<<i>> : i \in events}
        \cup UNION {{<<i, j>> : j \in {k \in 1..Len(calObj.children[i].children) :
                                  calObj.children[i].children[k].name = "VALARM"}} :
                    i \in events}

\* The identifiers a program's clock, random number and host can give
UidValues == {"uid-1", "uid-2"}

\* generateImplicitParameters of an event or of an alarm of an event
GenerateForChild ==
    /\ Len(calCalls) < MaxImplied
    /\ \E path \in ComponentPaths :
          /\ \E uid \in UidValues :
                calObj' =
                  IF Len(path) = 1
                    THEN [calObj EXCEPT !.children[path[1]] = ChildImplied(@, uid)]
                    ELSE [calObj EXCEPT !.children[path[1]].children[path[2]] =
                                           ChildImplied(@, uid)]
          /\ calCalls' = Append(calCalls, path)
    /\ calExc' = "none"
    /\ UNCHANGED <<calDone, tzidMap, nOrig, node, nLog>>
    /\ UNCHANGED <<textVars, durVars, valVars, recurVars, tzVars>>
    /\ UNCHANGED regVars

-----------------------------------------------------------------------------
(* The recurrence specification: a recurring component is built, and       *)
(* getrruleset and setrruleset are called on it.                           *)

\* DTSTART values: none, a floating and a zoned date-time, a date
Dtstarts ==
    {NoneV, DateTimeV(2005, 1, 19, 9, 0, 0, NoneV),
     DateTimeV(2005, 1, 19, 9, 0, 0, Eastern), DateV(2005, 1, 19)}

\* The instant rules are expanded from: DTSTART as a date-time
StartOf(dtstart) ==
    IF dtstart = NoneV THEN DateTimeV(2005, 1, 19, 9, 0, 0, NoneV)
    ELSE IF dtstart.t = "date" THEN Midnight(dtstart) ELSE dtstart

\* Rule lines: with and without COUNT, generating DTSTART or not, and one
\* that generates nothing.
RuleLinesFor(start) ==
    LET next == NextDay(start)
        later == NextDay(next)
    IN  {[values |-> ("COUNT" :> <<"2">>), freq |-> "DAILY", occ |-> <<next, later>>],
         [values |-> ("COUNT" :> <<"2">>), freq |-> "DAILY",
          occ |-> <<start, next, later>>],
         [values |-> <<>>, freq |-> "DAILY", occ |-> <<next, later>>],
         [values |-> <<>>, freq |-> "DAILY", occ |-> <<start, next>>],
         [values |-> ("COUNT" :> <<"2">>), freq |-> "DAILY", occ |-> <<>>]}

\* Native RDATE / EXDATE lists: date-times, dates, a period
DateListsFor(start) ==
    {ListV(<<NextDay(start)>>),
     ListV(<<DateV(2005, 1, 20), DateV(2005, 1, 21)>>),
     ListV(<<TupleV(NextDay(start), TimedeltaV(3600))>>)}

SeqsUpTo(set, n) == UNION {[1..k -> set] : k \in 0..n}

\* The sets a program hands to setrruleset: one daily rule with a count,
\* an until, both or neither, and inclusions; or one rule of each frequency
\* with month days that are DTSTART's, another day's, or both.
RrulesetsFor(start) ==
    {[exrule |-> <<>>,
      rrule |-> <<[count |-> c, until |-> u, dtstart |-> start, freq |-> 3,
                   bymonthday |-> <<>>, occ |-> <<start, NextDay(start)>>]>>,
      rdate |-> d, exdate |-> <<>>] :
        c \in {PyNone, PyInt(3)}, u \in {NoneV, NextDay(NextDay(start))},
        d \in {<<>>, <<start, NextDay(start)>>}}
    \cup
    {[exrule |-> <<>>,
      rrule |-> <<[count |-> PyNone, until |-> NoneV, dtstart |-> start,
                   freq |-> f, bymonthday |-> b, occ |-> <<start>>]>>,
      rdate |-> <<>>, exdate |-> <<>>] :
        f \in 0..3,
        b \in {<<start.day>>, <<start.day + 1>>, <<start.day, start.day + 1>>}}

NoRrulesetCall == [op |-> "none", addRDate |-> FALSE, exc |-> "none", set |-> NoneV]

RecurInit ==
    /\ tvOrig = <<>>
    /\ tvLine = [value |-> <<>>, encoded |-> FALSE]
    /\ tvOps = <<>>
    /\ tvIn = <<>>
    /\ tvStrict = FALSE
    /\ tvOut = NoCall
    /\ durSrc = "idle"
    /\ durDelta = 0
    /\ durSegs = <<>>
    /\ durText = <<>>
    /\ durOut = NoDurCall
    /\ vObj = NoComponent
    /\ vRaise = FALSE
    /\ vResult = "none"
    /\ nOrig = NoNode
    /\ node = NoNode
    /\ tzidMap = InitialTzidMap
    /\ nLog = <<>>
    /\ \E d \in Dtstarts :
         rcComp \in [dtstart : {d},
                     exrule : {x \in SeqsUpTo(RuleLinesFor(StartOf(d)), 1) :
                                 x = <<>> \/ x[1].values = <<>>},
                     rrule : SeqsUpTo(RuleLinesFor(StartOf(d)), MaxRules),
                     rdate : SeqsUpTo(DateListsFor(StartOf(d)), 1),
                     exdate : {x \in SeqsUpTo(DateListsFor(StartOf(d)), 1) :
                                 x = <<>> \/ x[1].items[1].t # "tuple"}]
    /\ rcOut = NoRrulesetCall
    /\ tzComp = <<>>
    /\ tzArgs = <<>>
    /\ calObj = <<>>
    /\ calDone = FALSE
    /\ regProcs = <<>>
    /\ regWrites = <<>>
    /\ calCalls = <<>>
    /\ calExc = "none"

\* component.getrruleset(addRDate)
GetRruleset ==
    /\ \E addRDate \in BOOLEAN :
         \E r \in {getrruleset(rcComp, addRDate)} :
            rcOut' = [op |-> "get", addRDate |-> addRDate, exc |-> r.exc,
                      set |-> r.set]
    /\ UNCHANGED rcComp
    /\ UNCHANGED <<textVars, durVars, valVars, nodeVars>>
    /\ UNCHANGED tzVars
    /\ UNCHANGED calVars
    /\ UNCHANGED regVars
    /\ UNCHANGED implVars

\* component.rruleset = rruleset
SetRruleset ==
    /\ Len(rcComp.rrule) < MaxRules
    /\ \E rs \in RrulesetsFor(StartOf(rcComp.dtstart)) :
         \E r \in {setrruleset(rcComp, rs)} :
            /\ rcComp' = r.comp
            /\ rcOut' = [op |-> "set", addRDate |-> FALSE, exc |-> r.exc,
                         set |-> rs]
    /\ UNCHANGED <<textVars, durVars, valVars, nodeVars>>
    /\ UNCHANGED tzVars
    /\ UNCHANGED calVars
    /\ UNCHANGED regVars
    /\ UNCHANGED implVars

-----------------------------------------------------------------------------
(* The registry specification: two native-to-text transforms run at once,  *)
(* each stopping between the check and the write of registerTzinfo.        *)

Procs == {1, 2}

\* A second time source that names itself "CET"
ParisSummer == [t |-> "tzinfo", tzid |-> "CET", offset |-> 2]

\* The nodes the two transforms are given
RaceNodes ==
    {[behavior |-> "DateTime", cls |-> "ContentLine",
      value |-> DateTimeV(2005, 1, 19, 9, 0, 0, z), params |-> <<>>,
      isNative |-> TRUE] :
        z \in {NoneV, utc, Eastern, EasternSummer, Paris, ParisSummer}}

RegInit ==
    /\ tvOrig = <<>>
    /\ tvLine = [value |-> <<>>, encoded |-> FALSE]
    /\ tvOps = <<>>
    /\ tvIn = <<>>
    /\ tvStrict = FALSE
    /\ tvOut = NoCall
    /\ durSrc = "idle"
    /\ durDelta = 0
    /\ durSegs = <<>>
    /\ durText = <<>>
    /\ durOut = NoDurCall
    /\ vObj = NoComponent
    /\ vRaise = FALSE
    /\ vResult = "none"
    /\ nOrig = NoNode
    /\ node = NoNode
    /\ nLog = <<>>
    /\ rcComp = <<>>
    /\ rcOut = <<>>
    /\ tzComp = <<>>
    /\ tzArgs = <<>>
    /\ calObj = <<>>
    /\ calDone = FALSE
    /\ tzidMap = InitialTzidMap
    /\ regProcs \in [Procs -> {[pc |-> "start", obj |-> n, writes |-> FALSE,
                                  tzinfo |-> n.value.tzinfo] : n \in RaceNodes}]
    /\ regWrites = <<>>
    /\ calCalls = <<>>
    /\ calExc = "none"

\* transformFromNative up to the test in registerTzinfo:
\* obj.isNative = False; tzid = pickTzid(...); if tzid and not getTzid(tzid)
CheckTzid(p) ==
    /\ regProcs[p].pc = "start"
    /\ regProcs' = [regProcs EXCEPT ![p] =
          [pc |-> "checked",
           obj |-> [@.obj EXCEPT !.isNative = FALSE],
           writes |-> /\ pickTzid(@.obj.value.tzinfo) # NoTzid
                      /\ pickTzid(@.obj.value.tzinfo) # ""
                      /\ getTzid(tzidMap, pickTzid(@.obj.value.tzinfo)) = NoneV,
           tzinfo |-> @.tzinfo]]
    /\ UNCHANGED <<regWrites, tzidMap, node, nOrig, nLog>>
    /\ UNCHANGED <<textVars, durVars, valVars, recurVars, tzVars, calVars>>
    /\ UNCHANGED implVars

\* The rest of transformFromNative: registerTzid(tzid, tzinfo) if the test
\* passed, then the value's text and the TZID parameter
WriteTzid(p) ==
    /\ regProcs[p].pc = "checked"
    /\ tzidMap' = IF regProcs[p].writes
                    THEN registerTzid(tzidMap, pickTzid(regProcs[p].tzinfo),
                                      regProcs[p].tzinfo)
                    ELSE tzidMap
    /\ regWrites' = IF regProcs[p].writes THEN Append(regWrites, p) ELSE regWrites
    /\ regProcs' = [regProcs EXCEPT ![p] =
          [pc |-> "done",
           obj |-> [@.obj EXCEPT
                      !.value = Str(dateTimeToString(@, TRUE)),
                      !.params = IF pickTzid(regProcs[p].tzinfo) # NoTzid
                                   THEN SetParam(@, "TZID",
                                            pickTzid(regProcs[p].tzinfo))
                                   ELSE @],
           writes |-> @.writes,
           tzinfo |-> @.tzinfo]]
    /\ UNCHANGED <<node, nOrig, nLog>>
    /\ UNCHANGED <<textVars, durVars, valVars, recurVars, tzVars, calVars>>
    /\ UNCHANGED implVars

-----------------------------------------------------------------------------
(* Specifications *)

TextNext == Encode \/ Decode \/ ParseText

SpecText == TextInit /\ [][TextNext]_vars

DurNext == FormatDelta \/ ParseDurations

SpecDur == DurInit /\ [][DurNext]_vars

ValNext == AddChild \/ AddGrandChild \/ ValidateComponent

SpecVal == ValInit /\ [][ValNext]_vars

NodeNext == ToNative \/ FromNative

SpecNode == NodeInit /\ [][NodeNext]_vars

RecurNext == GetRruleset \/ SetRruleset

SpecRecur == RecurInit /\ [][RecurNext]_vars

TzNext == SetTzinfo

SpecTz == TzInit /\ [][TzNext]_vars

CalNext ==
    AddToCalendar \/ GenerateImplicitParameters \/ GenerateAgain \/ GenerateForChild

SpecCal == CalInit /\ [][CalNext]_vars

RegNext == \E p \in Procs : CheckTzid(p) \/ WriteTzid(p)

SpecReg == RegInit /\ [][RegNext]_vars

-----------------------------------------------------------------------------
(* Claims about validation *)

HasChild(obj, name) == CountOf(obj, name) > 0

\* C1: validate on an event with both a DTEND and a DURATION child fails: it
\* raises ValidateError when raiseException is true and returns false
\* otherwise; the same for a to-do with both DUE and DURATION.
C1_EndAndDurationExclusive ==
    (/\ vResult # "none"
     /\ \/ vObj.name = "VEVENT" /\ HasChild(vObj, "DTEND")
        \/ vObj.name = "VTODO" /\ HasChild(vObj, "DUE")
     /\ HasChild(vObj, "DURATION"))
        => vResult = (IF vRaise THEN "ValidateError" ELSE "False")

\* A child with min 1 is missing, or a child occurs more often than its max.
CardinalityViolated(obj) ==
    \E key \in DOMAIN knownChildren(obj.name) :
        LET min == knownChildren(obj.name)[key][1]
            max == knownChildren(obj.name)[key][2]
        IN  \/ CountOf(obj, key) < min
            \/ max # 0 /\ CountOf(obj, key) > max

\* C2: for every component type with a cardinality table, validate fails
\* when a child with min 1 is missing or a child occurs more often than its
\* max.
C2_CardinalityEnforced ==
    (vResult # "none" /\ vObj.name \in ComponentNames /\ CardinalityViolated(vObj))
        => vResult # "True"

-----------------------------------------------------------------------------
(* Claims about the native/text transforms *)

LastCall == nLog[Len(nLog)]

IsValueNode == node.behavior \in ValueBehaviors

\* C3: when toNative of a value behavior fails, the node is never left with
\* isNative true and a text value.
C3_FailedToNativeReverts ==
    (/\ nLog # <<>>
     /\ IsValueNode
     /\ LastCall.op = "toNative"
     /\ LastCall.exc # "none")
        => ~(node.isNative /\ node.value.t = "str")

\* A date, a date-time, a duration or a list of them
IsTypedObject(v) ==
    \/ v.t \in {"date", "datetime", "timedelta"}
    \/ /\ v.t = "list"
       /\ \A k \in 1..Len(v.items) :
             v.items[k].t \in {"date", "datetime", "timedelta", "tuple"}

AllSucceeded == \A k \in 1..Len(nLog) : nLog[k].exc = "none"

\* A list of strings
IsTextList(v) ==
    v.t = "list" /\ \A k \in 1..Len(v.items) : v.items[k].t = "str"

\* C4: after any sequence of successful toNative / fromNative calls on a
\* property node (the nodes with an empty text or an unhandled VALUE
\* included), isNative is true exactly when value is a typed object and
\* false exactly when value is a string or a list of strings.
C4_NativeFlagAgreesWithValue ==
    (IsValueNode /\ AllSucceeded)
        => /\ node.isNative <=> IsTypedObject(node.value)
           /\ ~node.isNative <=> (node.value.t = "str" \/ IsTextList(node.value))

\* C5: toNative applied to a node that is already native changes nothing:
\* value, parameters and isNative stay as they are (and so does the registry).
C5_ToNativeOnNativeIsNoOp ==
    [][(/\ node.isNative
        /\ Len(nLog') = Len(nLog) + 1
        /\ nLog'[Len(nLog')].op = "toNative")
          => (node' = node /\ tzidMap' = tzidMap /\ nLog'[Len(nLog')].exc = "none")]_vars

\* toNative was called twice in a row on a line that became a date-time.
C5_Witness ==
    /\ Len(nLog) = 2
    /\ nLog[1] = [op |-> "toNative", exc |-> "none"]
    /\ nLog[2] = [op |-> "toNative", exc |-> "none"]
    /\ node.isNative
    /\ node.value.t = "datetime"

-----------------------------------------------------------------------------
(* Claims about the escaped-text-list parser and MultiText *)

\* C6: for every list of strings L (empty strings and the empty list
\* included), MultiText decode(encode(L)) yields L again.
C6_DecodeEncodeRoundTrip ==
    tvOps = <<"encode", "decode">> => tvLine.value = tvOrig

\* A backslash in escape position followed by a character that is not one of
\* backslash, semicolon, comma, n, N.
RECURSIVE MalformedEscapeFrom(_, _)
MalformedEscapeFrom(s, i) ==
    IF i >= Len(s) THEN FALSE
    ELSE IF s[i] = BSLASH
      THEN IF s[i + 1] \in {BSLASH, SEMI, COMMA, "n", "N"}
             THEN MalformedEscapeFrom(s, i + 2)
             ELSE TRUE
    ELSE MalformedEscapeFrom(s, i + 1)

\* C7: in strict mode the parser raises ParseError for every input with a
\* malformed escape.
C7_StrictRaisesOnMalformedEscape ==
    (tvOut.called /\ tvStrict /\ MalformedEscapeFrom(tvIn, 1))
        => tvOut.exc = "ParseError"

\* The commas of s that no backslash escapes.
RECURSIVE UnescapedCommas(_, _)
UnescapedCommas(s, i) ==
    IF i > Len(s) THEN 0
    ELSE IF s[i] = BSLASH THEN UnescapedCommas(s, i + 2)
    ELSE IF s[i] = COMMA THEN 1 + UnescapedCommas(s, i + 1)
    ELSE UnescapedCommas(s, i + 1)

\* C8: the parser yields one value per segment delimited by unescaped commas
\* (an input ending in an unescaped comma ends with an empty final value),
\* and the empty input yields exactly one empty value.
C8_OneValuePerSegment ==
    tvOut.called =>
        /\ Len(tvOut.results) = UnescapedCommas(tvIn, 1) + 1
        /\ tvIn = <<>> => tvOut.results = << <<>> >>

-----------------------------------------------------------------------------
(* Claims about durations *)

\* C9: for every whole-second timedelta x (zero, positive or negative),
\* stringToDurations(timedeltaToString(x)) returns [x], and
\* timedeltaToString(0) is "P0S".
C9_DurationRoundTrip ==
    /\ (durSrc = "delta" /\ durOut.called)
          => (durOut.exc = "none" /\ durOut.durations = <<durDelta>>)
    /\ (durSrc = "delta" /\ durDelta = 0 /\ durText # <<>>)
          => durText = <<"P", "0", "S">>

\* A negative timedelta of less than one day has been formatted and parsed back.
C9_Witness ==
    /\ durSrc = "delta"
    /\ durOut.called
    /\ durDelta < 0
    /\ durDelta > -86400
    /\ durOut.durations = <<durDelta>>

\* C10: for text made of two or more well-formed durations separated by
\* commas the parser returns the ordered sequence of their signed values.
C10_MultiDurationSequence ==
    (durSrc = "segments" /\ Len(durSegs) >= 2 /\ durOut.called)
        => (durOut.exc = "none" /\ durOut.durations = SegSecs(durSegs))

-----------------------------------------------------------------------------
(* Claims about the date-time transforms *)

\* The same wall-clock fields and the same offset from UTC (or both floating)
SameDateTime(a, b) ==
    /\ a.t = "datetime" /\ b.t = "datetime"
    /\ <<a.year, a.month, a.day, a.hour, a.minute, a.second>>
         = <<b.year, b.month, b.day, b.hour, b.minute, b.second>>
    /\ (a.tzinfo = NoneV) <=> (b.tzinfo = NoneV)
    /\ a.tzinfo # NoneV => a.tzinfo.offset = b.tzinfo.offset

\* fromNative and then toNative have been called on a node built native.
FromThenTo ==
    /\ nOrig.isNative
    /\ Len(nLog) = 2
    /\ nLog[1].op = "fromNative"
    /\ nLog[2].op = "toNative"

\* C11: for every valid date-time d that is floating, UTC or in a zone with
\* an identifier, DateTime fromNative followed by toNative on the same node
\* restores a value equal to d with the same offset.
C11_DateTimeRoundTrip ==
    (nOrig.behavior = "DateTime" /\ FromThenTo)
        => /\ nLog[1].exc = "none" /\ nLog[2].exc = "none"
           /\ SameDateTime(node.value, nOrig.value)

\* C12: for every native date-time (floating, UTC or in another zone),
\* UtcDateTime fromNative yields a string ending in Z that reparses to the
\* UTC-normalized instant, and sets no TZID parameter.
C12_UtcFormatterEndsInZ ==
    (/\ nOrig.behavior = "UtcDateTime"
     /\ nOrig.isNative
     /\ Len(nLog) = 1
     /\ nLog[1].op = "fromNative")
        => /\ nLog[1].exc = "none"
           /\ node.value.t = "str"
           /\ node.value.s # <<>>
           /\ node.value.s[Len(node.value.s)] = "Z"
           /\ stringToDateTime(node.value.s, NoneV).exc = "none"
           /\ stringToDateTime(node.value.s, NoneV).v.tzinfo = utc
           /\ nOrig.value.tzinfo # NoneV
                 => stringToDateTime(node.value.s, NoneV).v = AsUtc(nOrig.value)
           /\ "TZID" \notin DOMAIN node.params

\* A valid fixed-width YYYYMMDD'T'HHMMSS[Z] date-time
WellFormedDateTime(s) ==
    /\ Len(s) \in {15, 16}
    /\ \A k \in (1..8) \cup (10..15) : s[k] \in Digits
    /\ s[9] = "T"
    /\ Len(s) = 16 => s[16] = "Z"
    /\ ValidDate(DigitsToNat(SubSeq(s, 1, 4), 0), DigitsToNat(SubSeq(s, 5, 6), 0),
                 DigitsToNat(SubSeq(s, 7, 8), 0))
    /\ ValidTime(DigitsToNat(SubSeq(s, 10, 11), 0), DigitsToNat(SubSeq(s, 12, 13), 0),
                 DigitsToNat(SubSeq(s, 14, 15), 0))

\* C13: DateTime toNative (through stringToDateTime) fails with ParseError,
\* and with no other error kind, for every text that is not a valid
\* fixed-width date-time: too short, non-digit fields, fields out of range.
C13_MalformedDateTimeIsParseError ==
    (/\ nOrig.behavior = "DateTime"
     /\ ~nOrig.isNative
     /\ "VALUE" \notin DOMAIN nOrig.params
     /\ Len(nLog) = 1
     /\ nLog[1].op = "toNative"
     /\ ~WellFormedDateTime(nOrig.value.s))
        => nLog[1].exc = "ParseError"

\* toNative has been called once on a DateOrDateTime line built with a text
\* that is not empty.
DateOrDateTimeParsed ==
    /\ nOrig.behavior = "DateOrDateTime"
    /\ ~nOrig.isNative
    /\ nOrig.value.s # <<>>
    /\ Len(nLog) = 1
    /\ nLog[1].op = "toNative"

\* The call ended as the parse r did: the same exception, or the same value.
EndedAs(r) ==
    /\ nLog[1].exc = r.exc
    /\ r.exc = "none" => node.value = r.v

C15_MultiDateFromNative ==
    (/\ nOrig.behavior = "MultiDate"
     /\ ~nOrig.isNative
     /\ UpperValue(ParamOr(nOrig, "VALUE", "DATE-TIME")) \in {"DATE", "DATE-TIME", "PERIOD"}
     /\ Len(nLog) = 2
     /\ nLog[1] = [op |-> "toNative", exc |-> "none"]
     /\ nLog[2].op = "fromNative")
        => /\ nLog[2].exc = "none"
           /\ ~node.isNative
           /\ node.value = nOrig.value

-----------------------------------------------------------------------------
(* Claims about recurrence sets *)

\* The rules getrruleset parses from the component's RRULE lines
ParsedRule(i) == rrulestr(rcComp.rrule[i], rcComp.dtstart)

\* Rule i generates no occurrence at DTSTART
LacksDtstart(i) ==
    \A k \in 1..Len(Occurrences(ParsedRule(i))) :
        Occurrences(ParsedRule(i))[k] # StartOf(rcComp.dtstart)

\* The inclusions / exclusions the component's own lines name: every
\* date-time, every date as its midnight, no period
RECURSIVE OwnDates(_)
OwnDates(lines) ==
    IF lines = <<>> THEN <<>>
    ELSE LET items == Head(lines).items
             fed == [k \in 1..Len(items) |->
                        IF items[k].t = "date" THEN Midnight(items[k])
                        ELSE items[k]]
         IN  SelectSeq(fed, LAMBDA x : x.t = "datetime") \o OwnDates(Tail(lines))

\* C16: with DTSTART-inclusion enabled, for a component with a DTSTART and
\* at least one RRULE, getrruleset completes; each rule's COUNT is one less
\* exactly when the rule has a COUNT and its occurrences lack DTSTART, and
\* DTSTART is included once per such rule; without the option no count
\* changes and no inclusion is added.
C16_AddRDateCompensates ==
    (rcOut.op = "get" /\ rcComp.dtstart # NoneV /\ Len(rcComp.rrule) >= 1) =>
        /\ rcOut.exc = "none"
        /\ rcOut.set # NoneV
        /\ Len(rcOut.set.rrule) = Len(rcComp.rrule)
        /\ \A i \in 1..Len(rcComp.rrule) :
              rcOut.set.rrule[i].count =
                 IF rcOut.addRDate /\ LacksDtstart(i) /\ ParsedRule(i).count # PyNone
                   THEN PyInt(ParsedRule(i).count.n - 1)
                   ELSE ParsedRule(i).count
        /\ Len(rcOut.set.rdate) =
              Len(SelectSeq(rcOut.set.rdate, LAMBDA x : x # rcComp.dtstart))
              + IF rcOut.addRDate
                  THEN Cardinality({i \in 1..Len(rcComp.rrule) : LacksDtstart(i)})
                  ELSE 0

\* C17: every date-time entry and every date-only entry (as midnight) of
\* the component's RDATE and EXDATE lists is in the inclusion and exclusion
\* list of the set getrruleset returns; only periods are left out.
C17_EveryDateEntryIsFed ==
    (rcOut.op = "get" /\ rcOut.set # NoneV /\ ~rcOut.addRDate) =>
        /\ rcOut.set.rdate = OwnDates(rcComp.rdate)
        /\ rcOut.set.exdate = OwnDates(rcComp.exdate)

\* The rule setrruleset was given and the RRULE line it wrote for it
GivenRule == rcOut.set.rrule[1]
EmittedRule == rcComp.rrule[Len(rcComp.rrule)]
UntilWasEmitted ==
    /\ rcOut.op = "set" /\ rcOut.exc = "none"
    /\ GivenRule.until # NoneV /\ GivenRule.count = PyNone

EndsInZ(s) == Len(s) > 0 /\ s[Len(s)] = "Z"

MonthDaysWereGiven ==
    /\ rcOut.op = "set" /\ rcOut.exc = "none"
    /\ Len(GivenRule.bymonthday) > 0

\* The rule's month days are the single day of the month of DTSTART
OnlyStartDay ==
    /\ Len(GivenRule.bymonthday) = 1
    /\ GivenRule.bymonthday[1] = StartOf(rcComp.dtstart).day

\* The month days of the rule as the line spells them
MonthDaysVerbatim ==
    /\ "BYMONTHDAY" \in DOMAIN EmittedRule.values
    /\ EmittedRule.values["BYMONTHDAY"]
          = [i \in 1..Len(GivenRule.bymonthday) |-> NatToStr(GivenRule.bymonthday[i])]

\* C22 as stated: for a rule with a non-empty BYMONTHDAY list, the part is
\* omitted exactly when the list is the single day of the month of DTSTART
\* and the frequency is finer than monthly (weekly, daily, ...); in every
\* other case, yearly and monthly included, it is emitted verbatim.
C22_OmittedWhenSubMonthly ==
    MonthDaysWereGiven =>
        IF OnlyStartDay /\ GivenRule.freq > MONTHLY
          THEN "BYMONTHDAY" \notin DOMAIN EmittedRule.values
          ELSE MonthDaysVerbatim

\* C22, amended: for a rule with a non-empty BYMONTHDAY list, the part is
\* omitted exactly when the list is the single day of the month of DTSTART
\* and the frequency is yearly or monthly; in every other case, weekly and
\* finer frequencies included, it is emitted verbatim.
C22_OmittedWhenYearlyOrMonthly ==
    MonthDaysWereGiven =>
        IF OnlyStartDay /\ GivenRule.freq <= MONTHLY
          THEN "BYMONTHDAY" \notin DOMAIN EmittedRule.values
          ELSE MonthDaysVerbatim

\* A monthly rule on DTSTART's day was written without its month day
C22_Witness ==
    /\ MonthDaysWereGiven /\ OnlyStartDay
    /\ EmittedRule.freq = "MONTHLY"
    /\ "BYMONTHDAY" \notin DOMAIN EmittedRule.values

\* The lines setrruleset derives from a set, for a component with this
\* DTSTART
DerivedLines(dtstart, rruleset) ==
    LET dates(name) == EmitDates(name, rruleset[name], StartOf(dtstart),
                                 dtstart.t = "date")
        rules(name) == [i \in 1..Len(rruleset[name]) |->
                           EmitRule(rruleset[name][i], dtstart.t = "date")]
    IN  [dtstart |-> dtstart,
         exrule |-> rules("exrule"),
         rrule |-> rules("rrule"),
         rdate |-> IF dates("rdate") = <<>> THEN <<>> ELSE <<ListV(dates("rdate"))>>,
         exdate |-> IF dates("exdate") = <<>> THEN <<>>
                    ELSE <<ListV(dates("exdate"))>>]

\* C26: after setrruleset the component's RRULE, EXRULE, RDATE and EXDATE
\* lines are exactly the lines derived from the assigned set, none it held
\* before; assigning the same set again leaves the component as it is.
C26_AssignmentReplaces ==
    [][(rcOut'.op = "set" /\ rcOut'.exc = "none") =>
          /\ rcComp' = DerivedLines(rcComp.dtstart, rcOut'.set)
          /\ (rcOut.op = "set" /\ rcOut.exc = "none" /\ rcOut.set = rcOut'.set)
                => rcComp' = rcComp]_vars

-----------------------------------------------------------------------------
(* Claims about time zones *)

\* settzinfo was run over 2000..2005 on the source with summer time between
\* the last Sundays of March and of October
EuropeanWindow ==
    /\ tzArgs.tzinfo = EuropeanSource
    /\ tzArgs.start = DefaultStart /\ tzArgs.end = DefaultStart + 5

\* C19: for a source with one more hour from the last Sunday of March
\* 01:00 to the last Sunday of October 01:00, settzinfo over 2000..2005
\* writes exactly one DAYLIGHT and one STANDARD rule, both without UNTIL,
\* with BYDAY=-1SU in BYMONTH=3 and BYMONTH=10.
C19_EuropeanRulesInferred ==
    EuropeanWindow =>
        /\ Len(tzComp.daylight) = 1 /\ Len(tzComp.standard) = 1
        /\ tzComp.daylight[1].rrule
              = [byday |-> <<"-", "1", "S", "U">>, bymonth |-> <<"3">>, until |-> <<>>]
        /\ tzComp.standard[1].rrule
              = [byday |-> <<"-", "1", "S", "U">>, bymonth |-> <<"1", "0">>, until |-> <<>>]

\* The rules of that window were written, the daylight one starting on the
\* last Sunday of March 2000
C19_Witness ==
    /\ EuropeanWindow
    /\ Len(tzComp.daylight) = 1
    /\ tzComp.daylight[1].dtstart = DateTimeV(2000, 3, 26, 1, 0, 0, NoneV)
    /\ tzComp.daylight[1].rrule.byday = <<"-", "1", "S", "U">>

\* settzinfo's loop as it runs on the arguments of the call: the state
\* before the first year, the month found for a year and a regime, the
\* state before and after that step, and the rule of the year
LoopStart ==
    [working |-> [daylight |-> NoneV, standard |-> NoneV],
     completed |-> [daylight |-> <<>>, standard |-> <<>>]]
MonthFound(y, k) == firstTransition(generateDates(y, 0, 0), tzArgs.tzinfo, k, NoneV)
StepBefore(y, k) ==
    IF k = "daylight"
      THEN YearsLoop(tzArgs.tzinfo, tzArgs.start, y - 1, LoopStart)
      ELSE YearStep(tzArgs.tzinfo, y, "daylight",
                    YearsLoop(tzArgs.tzinfo, tzArgs.start, y - 1, LoopStart),
                    MonthFound(y, "daylight"))
StepAfter(y, k) == YearStep(tzArgs.tzinfo, y, k, StepBefore(y, k), MonthFound(y, k))
YearRule(y, k) ==
    TransitionRule(tzArgs.tzinfo,
        AddHours(FoundTransition(tzArgs.tzinfo, y, k, MonthFound(y, k).month),
                 IF k = "standard" THEN 2 ELSE 1),
        FoundTransition(tzArgs.tzinfo, y, k, MonthFound(y, k).month))
LoopSteps == (tzArgs.start .. tzArgs.end) \X {"daylight", "standard"}

\* A step with a transition outside December and a rule in effect
ComparesRules(before, k, month) ==
    /\ month # NoneV
    /\ month.month # 12
    /\ before.working[k] # NoneV

\* What the comparison of old with new leaves in before, by the rule stated
Compared(before, k, y, old, new) ==
    IF /\ new.month = old.month /\ new.weekday = old.weekday
       /\ new.hour = old.hour /\ new.offset = old.offset
       /\ (new.plus = old.plus \/ new.minus = old.minus)
      THEN [working |-> [before.working EXCEPT ![k] =
                [old EXCEPT !.plus = IF new.plus = old.plus THEN @ ELSE PyNone,
                            !.minus = IF new.minus = old.minus THEN @ ELSE PyNone]],
            completed |-> before.completed]
      ELSE [working |-> [before.working EXCEPT ![k] = new],
            completed |-> [before.completed EXCEPT ![k] =
                             Append(@, [old EXCEPT !.end = PyInt(y - 1)])]]

\* C23: for each regime and year with a transition outside December, when
\* the rule in effect has the year's month, weekday, hour and offset and at
\* least one equal ordinal, it stays in effect and only the ordinal that
\* differs is cleared; otherwise it is closed with end = year - 1 and the
\* year's rule takes effect.  A cleared ordinal never matches again.
C23_OrdinalsNarrow ==
    tzArgs.tzinfo # NoneV =>
      \A s \in LoopSteps :
        \A before \in {StepBefore(s[1], s[2])} :
          ComparesRules(before, s[2], MonthFound(s[1], s[2])) =>
            \A after \in {YearStep(tzArgs.tzinfo, s[1], s[2], before,
                                   MonthFound(s[1], s[2]))} :
              /\ after = Compared(before, s[2], s[1], before.working[s[2]],
                                  YearRule(s[1], s[2]))
              /\ \A f \in {"plus", "minus"} :
                    (/\ before.working[s[2]][f] = PyNone
                     /\ after.completed = before.completed)
                      => after.working[s[2]][f] = PyNone

\* A rule stayed in effect with its ordinal from the start cleared, and in
\* another year a rule was closed
C23_Witness ==
    /\ tzArgs.tzinfo # NoneV
    /\ \E s \in LoopSteps :
          \E before \in {StepBefore(s[1], s[2])} :
            /\ ComparesRules(before, s[2], MonthFound(s[1], s[2]))
            /\ before.working[s[2]].plus # PyNone
            /\ \E after \in {StepAfter(s[1], s[2])} :
                  /\ after.working[s[2]].plus = PyNone
                  /\ after.working[s[2]].minus # PyNone
                  /\ after.completed = before.completed
    /\ \E s \in LoopSteps :
          \E before \in {StepBefore(s[1], s[2])} :
            /\ ComparesRules(before, s[2], MonthFound(s[1], s[2]))
            /\ StepAfter(s[1], s[2]).completed # before.completed

\* The rule in effect is a periodic one, or a year-round one with another
\* offset than the year's
ShapedDifferently(old, y) ==
    \/ old.weekday # PyNone
    \/ old.offset # utcoffset(tzArgs.tzinfo, DateTimeV(y, 1, 1, 0, 0, 0, NoneV))

\* C24: when a regime holds for the whole of a year and the rule in effect
\* is shaped differently (a periodic rule, with whatever offset, or a
\* year-round rule with another offset), that rule is closed with
\* end = year - 1 and a year-round rule starting on 1 January of the year
\* takes effect.
C24_YearRoundReplaces ==
    tzArgs.tzinfo # NoneV =>
      \A s \in LoopSteps :
        \A before \in {StepBefore(s[1], s[2])} :
          (/\ MonthFound(s[1], s[2]) = NoneV
           /\ before.working[s[2]] # NoneV
           /\ ShapedDifferently(before.working[s[2]], s[1])) =>
            \A after \in {YearStep(tzArgs.tzinfo, s[1], s[2], before, NoneV)} :
              /\ after.working[s[2]]
                    = WholeYearRule(tzArgs.tzinfo, DateTimeV(s[1], 1, 1, 0, 0, 0, NoneV))
              /\ after.completed[s[2]]
                    = Append(before.completed[s[2]],
                             [before.working[s[2]] EXCEPT !.end = PyInt(s[1] - 1)])

Regimes == {"daylight", "standard"}

\* A periodic rule has an ordinal left
KeepsOrdinal(rule) ==
    rule.weekday # PyNone => (rule.plus # PyNone \/ rule.minus # PyNone)

\* The rules of a regime in the order they are written
WrittenRules(st, k) ==
    IF st.working[k] # NoneV THEN Append(st.completed[k], st.working[k])
    ELSE st.completed[k]

\* C25: after every step of settzinfo's loop each regime has at most one
\* rule in effect, which has no end; every completed rule has an end e
\* with start year <= e < the year of the step; every periodic rule has an
\* ordinal left.  In the component written, at most one rule of a regime
\* has no UNTIL, it is the last one, and every periodic rule has a BYDAY.
C25_RulesWellFormed ==
    tzArgs.tzinfo # NoneV =>
      /\ \A s \in LoopSteps :
           \A after \in {StepAfter(s[1], s[2])} :
             \A k \in Regimes :
               /\ after.working[k] # NoneV =>
                     /\ after.working[k].end = PyNone
                     /\ KeepsOrdinal(after.working[k])
               /\ \A i \in 1..Len(after.completed[k]) :
                     /\ after.completed[k][i].end # PyNone
                     /\ after.completed[k][i].start.year <= after.completed[k][i].end.n
                     /\ after.completed[k][i].end.n < s[1]
                     /\ KeepsOrdinal(after.completed[k][i])
      /\ \A last \in {StepAfter(tzArgs.end, "standard")} :
           \A k \in Regimes :
             /\ Len(tzComp[k]) = Len(WrittenRules(last, k))
             /\ \A i \in 1..Len(tzComp[k]) :
                   /\ tzComp[k][i].rrule.until = <<>> => i = Len(tzComp[k])
                   /\ WrittenRules(last, k)[i].weekday # PyNone
                         => tzComp[k][i].rrule.byday # <<>>

\* A year-round standard rule was closed and a periodic one, with its
\* ordinal from the start cleared, is in effect and written last
C25_Witness ==
    /\ tzArgs.tzinfo # NoneV
    /\ Len(tzComp.standard) = 2
    /\ tzComp.standard[1].rrule.byday = <<>>
    /\ tzComp.standard[1].rrule.until # <<>>
    /\ tzComp.standard[2].rrule.until = <<>>
    /\ tzComp.standard[2].rrule.byday = <<"-", "1", "S", "U">>
    /\ StepAfter(tzArgs.end, "standard").working.standard.plus = PyNone

\* The identifiers a node refers to outside VTIMEZONE components: TZID
\* parameters, and the zones of native date-times, single or in a list
RECURSIVE UsedTzids(_)
UsedTzids(obj) ==
    IF obj.line
      THEN (IF "TZID" \in DOMAIN obj.params THEN {obj.params["TZID"][1]} ELSE {})
           \cup (IF obj.value.t = "datetime" THEN {pickTzid(obj.value.tzinfo)}
                 ELSE IF obj.value.t = "list"
                   THEN {pickTzid(obj.value.items[i].tzinfo) :
                            i \in 1..Len(obj.value.items)}
                 ELSE {})
    ELSE IF obj.name = "VTIMEZONE" THEN {}
    ELSE UNION {UsedTzids(obj.children[i]) : i \in 1..Len(obj.children)}

\* The identifiers of the calendar's VTIMEZONE children
TimezonesOf(obj) ==
    {c.children[1].value.s :
        c \in {x \in {obj.children[i] : i \in 1..Len(obj.children)} :
                 x.name = "VTIMEZONE" /\ x.children # <<>>}}

\* C20: after generateImplicitParameters the calendar has a VTIMEZONE child
\* for every identifier other than UTC that a TZID parameter or a native
\* date-time (single or in a list) refers to outside VTIMEZONE components,
\* it has PRODID and VERSION, and it has no VTIMEZONE for UTC.
C20_ImpliedTimezonesExist ==
    calDone =>
        /\ (UsedTzids(calObj) \ {"UTC", NoTzid}) \subseteq TimezonesOf(calObj)
        /\ ChildrenNamed(calObj, "PRODID") # <<>>
        /\ ChildrenNamed(calObj, "VERSION") # <<>>
        /\ "UTC" \notin TimezonesOf(calObj)

-----------------------------------------------------------------------------
(* Claims about the registry under two transforms *)

\* The identifier transform p registers its time source under
RaceTzid(p) == pickTzid(regProcs[p].tzinfo)

\* C21: whatever the order of the checks and writes of two transforms, the
\* registry maps every identifier written to the source of the last
\* transform that wrote it, holds nothing else new, keeps every entry it
\* had (UTC included), and two transforms with the same source leave it as
\* one of them does.
C21_LastWriterWins ==
    /\ \A k \in DOMAIN InitialTzidMap :
          k \in DOMAIN tzidMap /\ tzidMap[k] = InitialTzidMap[k]
    /\ DOMAIN tzidMap =
          DOMAIN InitialTzidMap \cup {RaceTzid(regWrites[i]) : i \in 1..Len(regWrites)}
    /\ \A i \in 1..Len(regWrites) :
          (\A j \in (i + 1)..Len(regWrites) :
              RaceTzid(regWrites[j]) # RaceTzid(regWrites[i]))
          => tzidMap[RaceTzid(regWrites[i])] = regProcs[regWrites[i]].tzinfo
    /\ (/\ \A p \in Procs : regProcs[p].pc = "done"
        /\ regProcs[1].tzinfo = regProcs[2].tzinfo)
       => tzidMap = registerTzinfo(InitialTzidMap, regProcs[1].tzinfo)

\* Both transforms wrote the same new identifier with different sources,
\* and the registry holds the second writer's
C21_Witness ==
    /\ Len(regWrites) = 2
    /\ RaceTzid(1) = RaceTzid(2)
    /\ regProcs[1].tzinfo # regProcs[2].tzinfo
    /\ tzidMap[RaceTzid(1)] = regProcs[regWrites[2]].tzinfo

-----------------------------------------------------------------------------
(* Claims about every input of the parsers *)

\* C27: for every text, the empty one, one ending in a comma and one with
\* several durations included, stringToDurations ends and either returns
\* its list of durations or raises ParseError, never another error.
C27_OnlyParseErrors ==
    durOut.called => durOut.exc \in {"none", "ParseError"}

\* The text has a backslash followed by n or N
HasNewlineEscape(s) ==
    \E i \in 1..(Len(s) - 1) : s[i] = BSLASH /\ s[i + 1] \in {"n", "N"}

\* C28: for every text, one ending in an unpaired backslash included, the
\* non-strict stringToTextValues ends without raising and returns a list
\* that is not empty, in which every character of every value is a
\* character of the text or the newline of a \n or \N escape.
C28_OnlyInputCharacters ==
    (tvOut.called /\ ~tvStrict) =>
        /\ tvOut.exc = "none"
        /\ Len(tvOut.results) > 0
        /\ \A k \in 1..Len(tvOut.results) :
              \A j \in 1..Len(tvOut.results[k]) :
                 \/ \E i \in 1..Len(tvIn) : tvIn[i] = tvOut.results[k][j]
                 \/ tvOut.results[k][j] = NEWLINE /\ HasNewlineEscape(tvIn)

-----------------------------------------------------------------------------
(* Claims about repeated calls *)

\* The component at a path of the calendar; the empty path is the calendar
ComponentAt(obj, path) ==
    IF path = <<>> THEN obj
    ELSE IF Len(path) = 1 THEN obj.children[path[1]]
    ELSE obj.children[path[1]].children[path[2]]

\* generateImplicitParameters is called in this step
CallsImplied == calCalls' # calCalls
CalledOn == calCalls'[Len(calCalls')]
RepeatsCall == calCalls # <<>> /\ calCalls[Len(calCalls)] = CalledOn

\* C29: for a calendar, an event and an alarm, a call of
\* generateImplicitParameters right after another on the same component
\* raises nothing and leaves the calendar as it is, and every call leaves
\* each child the component had in place and unchanged; this includes a
\* calendar with a TZID parameter that names no registered zone.
C29_ImpliedOnce ==
    [][CallsImplied =>
          /\ RepeatsCall => (calExc' = "none" /\ calObj' = calObj)
          /\ \A i \in 1..Len(ComponentAt(calObj, CalledOn).children) :
                /\ i <= Len(ComponentAt(calObj', CalledOn).children)
                /\ ComponentAt(calObj', CalledOn).children[i]
                      = ComponentAt(calObj, CalledOn).children[i]]_vars

\* C30: for each of the value behaviors DateTime, UtcDateTime,
\* DateOrDateTime, MultiDate, Duration and Trigger, transformFromNative on
\* a node that is not native raises nothing and leaves the node's value,
\* parameters and native flag as they are.
C30_FromNativeOfTextIsNoOp ==
    [][(/\ Len(nLog') = Len(nLog) + 1
        /\ nLog'[Len(nLog')].op = "fromNative"
        /\ ~node.isNative
        /\ node.behavior \in ValueBehaviors) =>
          /\ nLog'[Len(nLog')].exc = "none"
          /\ node' = node]_vars

=============================================================================
